---- MODULE Spec2Model ----
(***************************************************************************)
(* A model of the klbfw REST client: the request lifecycle of              *)
(* RestContext::do_request (src/src/rest.rs) with its token renewal, and   *)
(* the request signing of ApiKey (src/src/apikey.rs), the upload           *)
(* orchestrator and its NumeralWaitGroup (src/src/upload.rs).              *)
(*                                                                         *)
(* Specifications:                                                         *)
(*   Spec     one Context issuing do_request calls against a server that   *)
(*            answers every request with any response of Responses        *)
(*   SpecSig  ApiKey::generate_signature applied to inputs drawn in Init   *)
(*   SpecUpload  one upload() call, from the size probe to its result,     *)
(*            against servers that answer every request in any way         *)
(*   SpecNwg  threads calling add, done and wait on one NumeralWaitGroup   *)
(*   SpecLib  one call of an accessor or a conversion of the library       *)
(*            (Response, Time, RestError) on a value drawn in Init         *)
(*   SpecTags  the ETag store of an upload: the callers of set_tag in any  *)
(*            order, and an upload whose parts store their ETags           *)
(***************************************************************************)
EXTENDS Integers, Sequences, FiniteSets, TLC

VARIABLES
    ctx,        \* the RestContext the caller holds: [token, api_key]
    call,       \* arguments of the current (or last) do_request call of the caller
    stack,      \* the do_request invocations waiting for their HTTP response
    wire,       \* the HTTP requests sent during the current call, in order
    answers,    \* the HTTP responses received during the current call, in order
    result,     \* what the current call returned to the caller (None while running)
    refreshed,  \* the Token written by the latest successful renew_token
    sigIn,      \* SpecSig: the inputs of generate_signature
    sigOut,     \* SpecSig: the calls made, each with its iteration order and result
    up,         \* SpecUpload: the upload() call in progress: its arguments, its
                \* UploadInfo, its locals and where it stands (None before the call)
    events,     \* SpecUpload: the requests sent, the answers received and the progress
                \* reports made, in order
    upResult,   \* SpecUpload: what upload() returned (None while running)
    nwg,        \* SpecNwg: the count of the NumeralWaitGroup
    threads,    \* SpecNwg: what each thread is doing
    libIn,      \* SpecLib: the call made on a value of the library, with its arguments
    libOut      \* SpecLib: what the call returned (None before it)

restVars == <<ctx, call, stack, wire, answers, result, refreshed>>
sigVars == <<sigIn, sigOut>>
upVars == <<up, events, upResult>>
nwgVars == <<nwg, threads>>
libVars == <<libIn, libOut>>
vars == <<ctx, call, stack, wire, answers, result, refreshed, sigIn, sigOut,
          up, events, upResult, nwg, threads, libIn, libOut>>

(***************************************************************************)
(* Bounds of the model.                                                    *)
(***************************************************************************)
\* how many times one call may re-enter do_request after a renewal
MaxRetries == 2
\* how many generate_signature calls SpecSig makes on one input
MaxSigCalls == 2
\* how many parts one upload may number
MaxParts == 14
\* how many calls the threads of SpecNwg make on the wait group, all together
MaxNwgCalls == 4

(***************************************************************************)
(* Option<T>: None is the empty sequence, Some(x) the one-element one.     *)
(***************************************************************************)
None == <<>>
Some(x) == <<x>>
IsSome(o) == o # <<>>
Unwrap(o) == o[1]

Last(s) == s[Len(s)]

\* the variables of a specification that is not running
UploadIdle == up = None /\ events = <<>> /\ upResult = None
NwgIdle == nwg = 0 /\ threads = <<>>
LibIdle == libIn = None /\ libOut = None

Ok(x) == [ok |-> TRUE, v |-> x]
Err(e) == [ok |-> FALSE, v |-> e]

(***************************************************************************)
(* Maps (HashMap<String, String>): functions from a finite set of keys.    *)
(***************************************************************************)
EmptyMap == [k \in {} |-> ""]
MapInsert(m, key, value) ==
    [k \in (DOMAIN m) \cup {key} |-> IF k = key THEN value ELSE m[k]]
MapWithout(m, key) == [k \in (DOMAIN m) \ {key} |-> m[k]]
Pairs(m) == {<<k, m[k]>> : k \in DOMAIN m}
\* the orders in which iterating a HashMap over the keys S can yield them
IterOrders(S) ==
    {s \in [1..Cardinality(S) -> S] : \A i, j \in 1..Cardinality(S) : s[i] = s[j] => i = j}

(***************************************************************************)
(* Byte counts (i64): [mib, b] stands for mib * 2^20 + b bytes with        *)
(* 0 <= b < 2^20, so that the sizes beyond 2^31 the upload limits are      *)
(* about keep their exact value.                                           *)
(***************************************************************************)
MiB == 1048576
Size(mib, b) == [mib |-> mib + (b \div MiB), b |-> b % MiB]
Bytes(n) == Size(0, n)
SzAdd(x, y) == Size(x.mib + y.mib, x.b + y.b)
SzSub(x, y) == Size(x.mib - y.mib - 1, x.b + MiB - y.b)
SzLess(x, y) == x.mib < y.mib \/ (x.mib = y.mib /\ x.b < y.b)
SzMin(x, y) == IF SzLess(x, y) THEN x ELSE y
\* n * x for a small n
SzTimes(n, x) == Size(n * x.mib, n * x.b)

\* i64::to_string: the decimal digits of a size, computed in parts of nine digits
Zeros(n) == [i \in 1..n |-> "0"]
RECURSIVE Concat(_)
Concat(parts) == IF parts = <<>> THEN "" ELSE parts[1] \o Concat(Tail(parts))
Billion == 1000 * 1000 * 1000
I64Text(size) ==
    LET mh == size.mib \div 1000
        ml == size.mib % 1000
        a == mh * 48576
        c == ml * MiB + size.b
        low == (a % 1000000) * 1000 + (c % Billion)
        hi == mh + (a \div 1000000) + (c \div Billion) + (low \div Billion)
        lo == low % Billion
        digits == ToString(lo)
    IN  IF hi = 0 THEN digits
        ELSE ToString(hi) \o Concat(Zeros(9 - Len(digits))) \o digits

(***************************************************************************)
(* JSON values (serde_json::Value): a record whose one field names the     *)
(* kind of value; an object holds its members as <<key, value>> pairs in   *)
(* key order.                                                              *)
(***************************************************************************)
JNull == [null |-> TRUE]
JNum(n) == [num |-> n]
JStr(s) == [str |-> s]
JObj(members) == [obj |-> members]
JArr(items) == [arr |-> items]
\* a number beyond 2^31, held as a size
JNum64(size) == [num64 |-> size]
IsNum64(j) == "num64" \in DOMAIN j
IsNull(j) == "null" \in DOMAIN j
IsNum(j) == "num" \in DOMAIN j
IsStr(j) == "str" \in DOMAIN j
IsObj(j) == "obj" \in DOMAIN j
IsArr(j) == "arr" \in DOMAIN j

JHas(j, key) == \E i \in 1..Len(j.obj) : j.obj[i][1] = key
JGet(j, key) == j.obj[CHOOSE i \in 1..Len(j.obj) : j.obj[i][1] = key][2]

RECURSIVE JsonText(_)
RECURSIVE JsonMembers(_)
RECURSIVE JsonItems(_)
\* serde_json::to_string / to_vec of a Value: the compact JSON text
JsonText(j) ==
    CASE IsNull(j) -> "null"
      [] IsNum(j) -> ToString(j.num)
      [] IsNum64(j) -> I64Text(j.num64)
      [] IsStr(j) -> "\"" \o j.str \o "\""
      [] IsObj(j) -> "{" \o JsonMembers(j.obj) \o "}"
      [] IsArr(j) -> "[" \o JsonItems(j.arr) \o "]"
JsonMembers(m) ==
    IF m = <<>> THEN ""
    ELSE "\"" \o m[1][1] \o "\":" \o JsonText(m[1][2])
         \o (IF Len(m) > 1 THEN "," \o JsonMembers(Tail(m)) ELSE "")
JsonItems(a) ==
    IF a = <<>> THEN ""
    ELSE JsonText(a[1]) \o (IF Len(a) > 1 THEN "," \o JsonItems(Tail(a)) ELSE "")

(***************************************************************************)
(* Token (src/src/token.rs)                                                *)
(***************************************************************************)
NewToken(access_token, refresh_token, client_id, expires_in) ==
    [access_token |-> access_token, refresh_token |-> refresh_token,
     token_type |-> "Bearer", client_id |-> client_id, expires_in |-> expires_in]

has_refresh_token(token) == token.refresh_token # ""
has_client_id(token) == token.client_id # ""

\* i32, the type of Token::expires_in and Response::code
IsI32(n) == n >= -2147483647 - 1 /\ n <= 2147483647

\* a string member that serde requires
ReqStr(obj, key) == JHas(obj, key) /\ IsStr(JGet(obj, key))
\* an Option<String> member: absent, null or a string
OptStrOk(obj, key) == JHas(obj, key) => IsStr(JGet(obj, key)) \/ IsNull(JGet(obj, key))
OptStr(obj, key) ==
    IF JHas(obj, key) /\ IsStr(JGet(obj, key)) THEN Some(JGet(obj, key).str) ELSE None
\* an Option<i32> member
OptI32Ok(obj, key) ==
    JHas(obj, key) =>
        \/ IsNull(JGet(obj, key))
        \/ IsNum(JGet(obj, key)) /\ IsI32(JGet(obj, key).num)
OptI32(obj, key) ==
    IF JHas(obj, key) /\ IsNum(JGet(obj, key)) THEN Some(JGet(obj, key).num) ELSE None
\* an Option<Value> member: null reads as None
OptValue(obj, key) ==
    IF JHas(obj, key) /\ ~IsNull(JGet(obj, key)) THEN Some(JGet(obj, key)) ELSE None

\* serde_json::from_value::<Token>: every field but client_id is required,
\* client_id is skipped and takes its default, the empty string
TokenFromValue(j) ==
    IF /\ IsObj(j)
       /\ ReqStr(j, "access_token") /\ ReqStr(j, "refresh_token") /\ ReqStr(j, "token_type")
       /\ JHas(j, "expires_in") /\ IsNum(JGet(j, "expires_in"))
       /\ IsI32(JGet(j, "expires_in").num)
    THEN Ok([access_token |-> JGet(j, "access_token").str,
             refresh_token |-> JGet(j, "refresh_token").str,
             token_type |-> JGet(j, "token_type").str,
             client_id |-> "",
             expires_in |-> JGet(j, "expires_in").num])
    ELSE Err([kind |-> "Json"])

(***************************************************************************)
(* Response, the envelope (src/src/response.rs), with the fields           *)
(* do_request reads.                                                       *)
(***************************************************************************)
\* A response body is [json |-> value] (the UTF-8 text of a JSON value),
\* [text |-> string] (UTF-8 text that is no JSON) or [binary |-> bytes] (bytes that
\* are no valid UTF-8).
IsJson(body) == "json" \in DOMAIN body
IsBinary(body) == "binary" \in DOMAIN body

\* serde_json::from_slice::<Response> of a response body
ResponseFromSlice(body) ==
    IF /\ IsJson(body)
       /\ IsObj(body.json)
       /\ ReqStr(body.json, "result")
       /\ OptStrOk(body.json, "error") /\ OptI32Ok(body.json, "code")
       /\ OptStrOk(body.json, "extra") /\ OptStrOk(body.json, "token")
       /\ OptStrOk(body.json, "exception")
    THEN Ok([result |-> JGet(body.json, "result").str,
             data |-> OptValue(body.json, "data"),
             error |-> OptStr(body.json, "error"),
             code |-> OptI32(body.json, "code"),
             extra |-> OptStr(body.json, "extra"),
             token |-> OptStr(body.json, "token"),
             exception |-> OptStr(body.json, "exception"),
             request_id |-> None])
    ELSE Err([kind |-> "Json"])

\* Response::apply::<Token>
ApplyToken(response) ==
    IF IsSome(response.data) THEN TokenFromValue(Unwrap(response.data))
    ELSE TokenFromValue(JNull)

RECURSIVE SplitSlash(_, _)
\* path.split('/'): the pieces between the slashes, the empty ones included; piece
\* is the piece being read
SplitSlash(path, piece) ==
    IF path = "" THEN <<piece>>
    ELSE IF Head(path) = "/" THEN <<piece>> \o SplitSlash(Tail(path), "")
    ELSE SplitSlash(Tail(path), piece \o Head(path))

\* the mutant of Segments: the empty pieces are kept
Segments_KeepEmpty(path) == SplitSlash(path, "")
\* path.split('/').filter(|s| !s.is_empty()).collect()
Segments(path) == SelectSeq(SplitSlash(path, ""), LAMBDA piece : piece # "")

Digits == <<"0", "1", "2", "3", "4", "5", "6", "7", "8", "9">>
IsDigit(c) == \E d \in 1..10 : Digits[d] = c
DigitValue(c) == (CHOOSE d \in 1..10 : Digits[d] = c) - 1
RECURSIVE DigitsValue(_, _)
DigitsValue(text, value) ==
    IF text = "" THEN value ELSE DigitsValue(Tail(text), 10 * value + DigitValue(Head(text)))
RECURSIVE SkipZeros(_)
SkipZeros(text) == IF text # "" /\ Head(text) = "0" THEN SkipZeros(Tail(text)) ELSE text
\* how many significant digits an index of the model may have
MaxIndexDigits == 9
\* part.parse::<usize>().ok()? followed by arr.get(index)?: usize::from_str takes
\* an optional "+" and then one digit or more, and nothing else. An index of more
\* than MaxIndexDigits significant digits is beyond usize or beyond the length of
\* the array: None either way.
ArrayItem(arr, part) ==
    LET digits == IF part # "" /\ Head(part) = "+" THEN Tail(part) ELSE part
        index == DigitsValue(SkipZeros(digits), 0)
    IN  IF \/ digits = ""
           \/ \E i \in 1..Len(digits) : ~IsDigit(SubSeq(digits, i, i))
           \/ Len(SkipZeros(digits)) > MaxIndexDigits
        THEN None
        ELSE IF index < Len(arr) THEN Some(arr[index + 1]) ELSE None

RECURSIVE Walk(_, _)
\* the loop of Response::get over the parts of the path, from the node current
Walk(current, parts) ==
    IF parts = <<>> THEN Some(current)
    ELSE IF IsObj(current)
         THEN IF JHas(current, Head(parts))
              THEN Walk(JGet(current, Head(parts)), Tail(parts))
              ELSE None
    ELSE IF IsArr(current)
         THEN LET item == ArrayItem(current.arr, Head(parts))
              IN  IF IsSome(item) THEN Walk(Unwrap(item), Tail(parts)) ELSE None
    ELSE None

\* Response::get
get(response, path) ==
    IF IsSome(response.data) THEN Walk(Unwrap(response.data), Segments(path)) ELSE None

\* Response::get_string
get_string(response, path) ==
    LET node == get(response, path)
    IN  IF IsSome(node) /\ IsStr(Unwrap(node)) THEN Some(Unwrap(node).str) ELSE None

\* serde_json::from_str::<Response> of the text of the JSON value json: result is
\* required, every other field is optional, request_id is skipped and takes its
\* default; members the struct does not name are ignored
ResponseFromStr(json) ==
    IF /\ IsObj(json)
       /\ ReqStr(json, "result")
       /\ OptStrOk(json, "error") /\ OptI32Ok(json, "code")
       /\ OptStrOk(json, "extra") /\ OptStrOk(json, "token")
       /\ OptStrOk(json, "exception") /\ OptStrOk(json, "redirect_url")
       /\ OptI32Ok(json, "redirect_code")
    THEN Ok([result |-> JGet(json, "result").str,
             data |-> OptValue(json, "data"),
             error |-> OptStr(json, "error"),
             code |-> OptI32(json, "code"),
             extra |-> OptStr(json, "extra"),
             token |-> OptStr(json, "token"),
             paging |-> OptValue(json, "paging"),
             job |-> OptValue(json, "job"),
             time |-> OptValue(json, "time"),
             access |-> OptValue(json, "access"),
             exception |-> OptStr(json, "exception"),
             redirect_url |-> OptStr(json, "redirect_url"),
             redirect_code |-> OptI32(json, "redirect_code"),
             request_id |-> None])
    ELSE Err([kind |-> "Json"])

\* a field with skip_serializing_if = "Option::is_none": no member when it is None
SerValue(key, field) == IF IsSome(field) THEN << <<key, Unwrap(field)>> >> ELSE <<>>
SerString(key, field) == IF IsSome(field) THEN << <<key, JStr(Unwrap(field))>> >> ELSE <<>>
SerI32(key, field) == IF IsSome(field) THEN << <<key, JNum(Unwrap(field))>> >> ELSE <<>>

\* the mutant of ResponseToString: request_id is written when it is set
ResponseToString_WithRequestId(self) ==
    << <<"result", JStr(self.result)>> >>
    \o SerValue("data", self.data) \o SerString("error", self.error)
    \o SerI32("code", self.code) \o SerString("extra", self.extra)
    \o SerString("token", self.token) \o SerValue("paging", self.paging)
    \o SerValue("job", self.job) \o SerValue("time", self.time)
    \o SerValue("access", self.access) \o SerString("exception", self.exception)
    \o SerString("redirect_url", self.redirect_url)
    \o SerI32("redirect_code", self.redirect_code)
    \o SerString("request_id", self.request_id)
\* serde_json::to_string(&response): the members of the object written, in the order
\* of the struct's fields; request_id (serde(skip)) is not among them
ResponseToString(self) ==
    << <<"result", JStr(self.result)>> >>
    \o SerValue("data", self.data) \o SerString("error", self.error)
    \o SerI32("code", self.code) \o SerString("extra", self.extra)
    \o SerString("token", self.token) \o SerValue("paging", self.paging)
    \o SerValue("job", self.job) \o SerValue("time", self.time)
    \o SerValue("access", self.access) \o SerString("exception", self.exception)
    \o SerString("redirect_url", self.redirect_url)
    \o SerI32("redirect_code", self.redirect_code)

\* map.insert(key, value) when the field is Some
InsertSome(map, key, field, value) == IF IsSome(field) THEN MapInsert(map, key, value) ELSE map
\* Response::full_raw: the serde_json::Map, as a function from its keys
full_raw(self) ==
    LET m0 == MapInsert(EmptyMap, "result", JStr(self.result))
        m1 == InsertSome(m0, "data", self.data, Unwrap(self.data))
        m2 == InsertSome(m1, "error", self.error, JStr(Unwrap(self.error)))
        m3 == InsertSome(m2, "code", self.code, JNum(Unwrap(self.code)))
        m4 == InsertSome(m3, "extra", self.extra, JStr(Unwrap(self.extra)))
        m5 == InsertSome(m4, "token", self.token, JStr(Unwrap(self.token)))
        m6 == InsertSome(m5, "paging", self.paging, Unwrap(self.paging))
        m7 == InsertSome(m6, "job", self.job, Unwrap(self.job))
        m8 == InsertSome(m7, "time", self.time, Unwrap(self.time))
        m9 == InsertSome(m8, "access", self.access, Unwrap(self.access))
        m10 == InsertSome(m9, "exception", self.exception, JStr(Unwrap(self.exception)))
        m11 == InsertSome(m10, "redirect_url", self.redirect_url,
                          JStr(Unwrap(self.redirect_url)))
    IN  InsertSome(m11, "redirect_code", self.redirect_code,
                   JNum(Unwrap(self.redirect_code)))

\* String::from_utf8_lossy(&body).to_string(): valid UTF-8 is kept as it is, every
\* invalid byte becomes the replacement character U+FFFD
ReplacementChar == "U+FFFD"
RECURSIVE Replacements(_)
Replacements(n) == IF n = 0 THEN "" ELSE ReplacementChar \o Replacements(n - 1)
FromUtf8Lossy(body) ==
    IF IsBinary(body) THEN [text |-> Replacements(Len(body.binary))] ELSE body

(***************************************************************************)
(* RestError (src/src/error.rs)                                            *)
(***************************************************************************)
RestErrorHttp(status, body) == [kind |-> "Http", status |-> status, body |-> body]

\* RestError::from_response
from_response(response) ==
    [kind |-> "Api",
     message |-> IF IsSome(response.error) THEN Unwrap(response.error) ELSE "unknown error",
     code |-> response.code,
     request_id |-> response.request_id,
     response |-> response]

\* the mutant of is_permission_denied: the kind of the error is not looked at
is_permission_denied_AnyKind(self) ==
    \/ self.kind = "Api" /\ self.code = Some(403)
    \/ self.kind = "Http" /\ self.status = 403
\* RestError::is_permission_denied
is_permission_denied(self) == self.kind = "Api" /\ self.code = Some(403)

\* RestError::is_not_found
is_not_found(self) == self.kind = "Api" /\ self.code = Some(404)

\* RestError::status_code; status is a u16, which `as i32` keeps as it is
status_code(self) ==
    CASE self.kind = "Api" -> self.code
      [] self.kind = "Http" -> Some(self.status)
      [] OTHER -> None

(***************************************************************************)
(* Time (src/src/time.rs): a chrono DateTime<Utc>, held as [secs, nanos],  *)
(* the seconds since the epoch and the nanoseconds within the second. An   *)
(* i64 argument is held as the JSON number it was read from: [num |-> n]   *)
(* or, beyond 2^31, [num64 |-> size].                                      *)
(***************************************************************************)
\* an i64 member that serde requires
ReqI64(obj, key) == JHas(obj, key) /\ (IsNum(JGet(obj, key)) \/ IsNum64(JGet(obj, key)))
I64Value(j) == IF IsNum64(j) THEN j.num64 ELSE j.num

\* TimeInternal::deserialize: unix and us are required, the four strings optional
TimeInternalFromStr(json) ==
    IF /\ IsObj(json)
       /\ ReqI64(json, "unix") /\ ReqI64(json, "us")
       /\ OptStrOk(json, "tz") /\ OptStrOk(json, "iso")
       /\ OptStrOk(json, "full") /\ OptStrOk(json, "unixms")
    THEN Ok([unix |-> JGet(json, "unix"), us |-> JGet(json, "us"),
             tz |-> OptStr(json, "tz"), iso |-> OptStr(json, "iso"),
             full |-> OptStr(json, "full"), unixms |-> OptStr(json, "unixms")])
    ELSE Err([kind |-> "Json"])

\* a panic: the call does not return
Panic(msg) == Err([kind |-> "panic", msg |-> msg])

\* the last second a chrono DateTime<Utc> holds, 23:59:59 on 31 December 262142
ChronoMaxSecs == Size(7829920, 682879)
\* Utc.timestamp_opt(unix, nanos) is a single DateTime: the seconds are those of a
\* date chrono holds (every integer of the model is) and nanos is below a second
TimestampOpt(unix, nanos) ==
    IF /\ IsNum64(unix) => ~SzLess(ChronoMaxSecs, unix.num64)
       /\ nanos < Billion
    THEN Some([secs |-> I64Value(unix), nanos |-> nanos])
    ELSE None

\* the mutant of from_unix: microseconds are taken for milliseconds
from_unix_Millis(unix, usec) ==
    LET nanos == (usec.num \div 1000) * 1000 * 1000
        single == TimestampOpt(unix, nanos)
    IN  IF IsSome(single) THEN Ok(Unwrap(single)) ELSE Panic("No such local time")
\* Time::from_unix: nanos = (usec * 1000) as u32, which keeps the product of a usec
\* in 0..999999; unwrap() panics when timestamp_opt yields no DateTime
from_unix(unix, usec) ==
    LET nanos == usec.num * 1000
        single == TimestampOpt(unix, nanos)
    IN  IF IsSome(single) THEN Ok(Unwrap(single)) ELSE Panic("No such local time")

\* Time::deserialize
TimeFromStr(json) ==
    LET internal == TimeInternalFromStr(json)
    IN  IF internal.ok THEN from_unix(internal.v.unix, internal.v.us) ELSE internal

\* Time::unix
unix(self) == self.secs
\* Time::usec
usec(self) == self.nanos \div 1000
\* an i64 too wide for the model's integers: hi * 10^digits + lo, 0 <= lo < 10^digits
Wide(hi, lo, digits) == [hi |-> hi, lo |-> lo, digits |-> digits]
\* Time::unix_micro: timestamp() * 1_000_000 + timestamp_subsec_micros()
unix_micro(self) == Wide(self.secs, self.nanos \div 1000, 6)
\* Time::unix_milli: timestamp() * 1000 + timestamp_subsec_millis()
unix_milli(self) == Wide(self.secs, self.nanos \div (1000 * 1000), 3)

RECURSIVE Pow10(_)
Pow10(n) == IF n = 0 THEN 1 ELSE 10 * Pow10(n - 1)
\* n in decimal, with zeros in front up to width digits
Padded(n, width) == Concat(Zeros(width - Len(ToString(n)))) \o ToString(n)
\* i64::to_string of a wide number
WideText(w) ==
    CASE w.hi = 0 -> ToString(w.lo)
      [] w.hi > 0 -> ToString(w.hi) \o Padded(w.lo, w.digits)
      [] w.hi < 0 /\ w.lo = 0 -> ToString(w.hi) \o Padded(0, w.digits)
      [] w.hi = -1 /\ w.lo > 0 -> "-" \o ToString(Pow10(w.digits) - w.lo)
      [] OTHER -> ToString(w.hi + 1) \o Padded(Pow10(w.digits) - w.lo, w.digits)

\* the date of the day `days` after 1 January 1970, as <<year, month, day>>
CivilFromDays(days) ==
    LET z == days + 719468
        era == z \div 146097
        doe == z - era * 146097
        yoe == (doe - doe \div 1460 + doe \div 36524 - doe \div 146096) \div 365
        doy == doe - (365 * yoe + yoe \div 4 - yoe \div 100)
        mp == (5 * doy + 2) \div 153
        d == doy - (153 * mp + 2) \div 5 + 1
        m == IF mp < 10 THEN mp + 3 ELSE mp - 9
    IN  <<yoe + era * 400 + (IF m <= 2 THEN 1 ELSE 0), m, d>>
\* Time::iso: format("%Y-%m-%d %H:%M:%S") of a date of the years 0..9999
iso(self) ==
    LET date == CivilFromDays(self.secs \div 86400)
        sod == self.secs % 86400
    IN  Padded(date[1], 4) \o "-" \o Padded(date[2], 2) \o "-" \o Padded(date[3], 2)
        \o " " \o Padded(sod \div 3600, 2) \o ":" \o Padded((sod % 3600) \div 60, 2)
        \o ":" \o Padded(sod % 60, 2)

\* Time::serialize: the members of the object written, in the order of the fields
\* of TimeInternal
TimeToString(self) ==
    << <<"unix", JNum(unix(self))>>, <<"us", JNum(usec(self))>>,
       <<"tz", JStr("UTC")>>, <<"iso", JStr(iso(self))>>,
       <<"full", JStr(WideText(unix_micro(self)))>>,
       <<"unixms", JStr(WideText(unix_milli(self)))>> >>

(***************************************************************************)
(* Text as bytes: the characters the model's query strings are made of,    *)
(* in ASCII order from the space (0x20) on (0x60, the grave accent, which  *)
(* no string of the model holds, is written by its code).                  *)
(***************************************************************************)
Ascii ==
    << " ", "!", "\"", "#", "$", "%", "&", "'", "(", ")", "*", "+", ",", "-", ".", "/",
       "0", "1", "2", "3", "4", "5", "6", "7", "8", "9", ":", ";", "<", "=", ">", "?",
       "@", "A", "B", "C", "D", "E", "F", "G", "H", "I", "J", "K", "L", "M", "N", "O",
       "P", "Q", "R", "S", "T", "U", "V", "W", "X", "Y", "Z", "[", "\\", "]", "^", "_",
       "0x60", "a", "b", "c", "d", "e", "f", "g", "h", "i", "j", "k", "l", "m", "n", "o",
       "p", "q", "r", "s", "t", "u", "v", "w", "x", "y", "z", "{", "|", "}", "~" >>
\* the byte of a character
AsciiCode == [c \in {Ascii[i] : i \in 1..Len(Ascii)} |-> 31 + (CHOOSE i \in 1..Len(Ascii) : Ascii[i] = c)]
Code(c) == AsciiCode[c]
HexDigit(n) == Ascii[IF n < 10 THEN 17 + n ELSE 24 + n]

\* the characters of the strings that occur as query keys and values
Chars(s) ==
    CASE s = "" -> <<>>
      [] s = "_" -> <<"_">>
      [] s = "_key" -> <<"_", "k", "e", "y">>
      [] s = "_time" -> <<"_", "t", "i", "m", "e">>
      [] s = "_nonce" -> <<"_", "n", "o", "n", "c", "e">>
      [] s = "_sign" -> <<"_", "s", "i", "g", "n">>
      [] s = "a" -> <<"a">>
      [] s = "b" -> <<"b">>
      [] s = "1" -> <<"1">>
      [] s = "x y" -> <<"x", " ", "y">>
      [] s = "{}" -> <<"{", "}">>
      [] s = "{\"a\":1}" -> <<"{", "\"", "a", "\"", ":", "1", "}">>
      [] s = "key-1" -> <<"k", "e", "y", "-", "1">>
      [] s = "1700000000" -> <<"1", "7", "0", "0", "0", "0", "0", "0", "0", "0">>
      [] s = "1700000001" -> <<"1", "7", "0", "0", "0", "0", "0", "0", "0", "1">>
      [] s = "0b5e" -> <<"0", "b", "5", "e">>
      [] s = "9c1d" -> <<"9", "c", "1", "d">>
      [] s = "3fa2" -> <<"3", "f", "a", "2">>
      [] s = "77c0" -> <<"7", "7", "c", "0">>
      [] s = "e1d4" -> <<"e", "1", "d", "4">>
      [] s = "5b90" -> <<"5", "b", "9", "0">>
      [] s = "c2ln" -> <<"c", "2", "l", "n">>
      [] s = "sigA" -> <<"s", "i", "g", "A">>
      [] s = "sigB" -> <<"s", "i", "g", "B">>
      [] s = "filename" -> <<"f", "i", "l", "e", "n", "a", "m", "e">>
      [] s = "size" -> <<"s", "i", "z", "e">>

RECURSIVE BytesLess(_, _)
\* the order of str::cmp: byte by byte, a proper prefix first
BytesLess(a, b) ==
    IF b = <<>> THEN FALSE
    ELSE IF a = <<>> THEN TRUE
    ELSE IF Code(a[1]) # Code(b[1]) THEN Code(a[1]) < Code(b[1])
    ELSE BytesLess(Tail(a), Tail(b))
StrLess(a, b) == BytesLess(Chars(a), Chars(b))

(***************************************************************************)
(* form_urlencoded::Serializer: application/x-www-form-urlencoded          *)
(***************************************************************************)
Unreserved ==
    { "*", "-", ".", "_", "0", "1", "2", "3", "4", "5", "6", "7", "8", "9",
      "A", "B", "C", "D", "E", "F", "G", "H", "I", "J", "K", "L", "M", "N", "O", "P",
      "Q", "R", "S", "T", "U", "V", "W", "X", "Y", "Z",
      "a", "b", "c", "d", "e", "f", "g", "h", "i", "j", "k", "l", "m", "n", "o", "p",
      "q", "r", "s", "t", "u", "v", "w", "x", "y", "z" }
ByteSerializeChar(c) ==
    IF c \in Unreserved THEN c
    ELSE IF c = " " THEN "+"
    ELSE "%" \o HexDigit(Code(c) \div 16) \o HexDigit(Code(c) % 16)
RECURSIVE ByteSerializeChars(_)
ByteSerializeChars(cs) ==
    IF cs = <<>> THEN "" ELSE ByteSerializeChar(cs[1]) \o ByteSerializeChars(Tail(cs))
ByteSerialize(s) == ByteSerializeChars(Chars(s))

RECURSIVE ExtendPairs(_)
\* Serializer::extend_pairs(params).finish(): k=v joined by &
ExtendPairs(params) ==
    IF params = <<>> THEN ""
    ELSE ByteSerialize(params[1][1]) \o "=" \o ByteSerialize(params[1][2])
         \o (IF Len(params) > 1 THEN "&" \o ExtendPairs(Tail(params)) ELSE "")

(***************************************************************************)
(* ApiKey (src/src/apikey.rs): [key_id, secret].  SHA-256, Ed25519 and     *)
(* base64url are library functions; each is modelled as an injective       *)
(* function of its input, written as text.                                 *)
(***************************************************************************)
Sha256(body) == "sha256(" \o body \o ")"
Ed25519Sign(secret, message) == "ed25519(" \o secret \o "," \o message \o ")"
UrlSafeNoPad(bytes) == "b64url(" \o bytes \o ")"
NUL == "\\0"

\* query_params.iter(): the pairs of the map, in the order iter gives its keys
IterPairs(query_params, iter) ==
    LET keys == SelectSeq(iter, LAMBDA k : k \in DOMAIN query_params)
    IN  [i \in 1..Len(keys) |-> <<keys[i], query_params[keys[i]]>>]

NotSign(p) == p[1] # "_sign"
\* .filter(|(k, _)| k.as_str() != "_sign")
FilterSign(params) == SelectSeq(params, NotSign)

RECURSIVE InsertByKey(_, _)
InsertByKey(sorted, p) ==
    IF sorted = <<>> THEN <<p>>
    ELSE IF StrLess(p[1], sorted[1][1]) THEN <<p>> \o sorted
    ELSE <<sorted[1]>> \o InsertByKey(Tail(sorted), p)
RECURSIVE SortedByKey(_)
SortedByKey(params) ==
    IF params = <<>> THEN <<>>
    ELSE InsertByKey(SortedByKey(SubSeq(params, 1, Len(params) - 1)), Last(params))
\* a faulty variant of SortByKey: the pairs stay in the order of iteration
SortByKey_Unsorted(params) == params
\* params.sort_by(|a, b| a.0.cmp(&b.0)): a stable sort on the key
SortByKey(params) == SortedByKey(params)

\* the bytes that are signed
SignString(method, path, query_string, body_hash) ==
    method \o NUL \o path \o NUL \o query_string \o NUL \o body_hash

\* ApiKey::generate_signature; iter is the order in which the map is iterated
generate_signature(api_key, method, path, query_params, body, iter) ==
    LET body_hash == Sha256(body)
        params == SortByKey(FilterSign(IterPairs(query_params, iter)))
        query_string == ExtendPairs(params)
        sign_string == SignString(method, path, query_string, body_hash)
        signature == Ed25519Sign(api_key.secret, sign_string)
    IN  UrlSafeNoPad(signature)

\* a faulty variant of apply_params: the signature is computed before "_nonce" is
\* inserted
apply_params_SignFirst(api_key, method, path, params, body, time, nonce, iter) ==
    LET p1 == MapInsert(params, "_key", api_key.key_id)
        p2 == MapInsert(p1, "_time", ToString(time))
        signature == generate_signature(api_key, method, path, p2, body, iter)
        p3 == MapInsert(p2, "_nonce", nonce)
    IN  [params |-> MapInsert(p3, "_sign", signature),
         signed |-> [method |-> method, path |-> path, query_params |-> p2, body |-> body]]
\* ApiKey::apply_params; time and nonce are the clock's seconds and the fresh
\* UUID.  Returns the map, and the arguments generate_signature was called with.
apply_params(api_key, method, path, params, body, time, nonce, iter) ==
    LET p1 == MapInsert(params, "_key", api_key.key_id)
        p2 == MapInsert(p1, "_time", ToString(time))
        p3 == MapInsert(p2, "_nonce", nonce)
        signature == generate_signature(api_key, method, path, p3, body, iter)
    IN  [params |-> MapInsert(p3, "_sign", signature),
         signed |-> [method |-> method, path |-> path, query_params |-> p3, body |-> body]]

(***************************************************************************)
(* RestContext::do_request (src/src/rest.rs), up to request.send()         *)
(***************************************************************************)
\* Config::default and Config::base_url
ConfigDefault == [scheme |-> "https", host |-> "www.atonline.com"]
base_url(config) == config.scheme \o "://" \o config.host

\* Method::from_bytes accepts any HTTP token: it rejects the empty string and
\* strings with a space or another separator
IsHttpToken(method) == method \notin {"", "G T"}

\* a faulty variant of PlaceParam: DELETE carries the param in the query as GET does
PlaceParam_DeleteQuery(method, param_json) ==
    CASE method \in {"GET", "HEAD", "OPTIONS", "DELETE"} ->
            Ok([query |-> MapInsert(EmptyMap, "_", JsonText(param_json)), body |-> ""])
      [] method \in {"PUT", "POST", "PATCH"} ->
            Ok([query |-> EmptyMap, body |-> JsonText(param_json)])
      [] OTHER ->
            Err([kind |-> "RequestBuild", msg |-> "Unsupported HTTP method: " \o method])
\* the match on the method: where the serialized param goes
PlaceParam(method, param_json) ==
    CASE method \in {"GET", "HEAD", "OPTIONS"} ->
            Ok([query |-> MapInsert(EmptyMap, "_", JsonText(param_json)), body |-> ""])
      [] method \in {"PUT", "POST", "PATCH"} ->
            Ok([query |-> EmptyMap, body |-> JsonText(param_json)])
      [] method = "DELETE" ->
            Ok([query |-> EmptyMap, body |-> ""])
      [] OTHER ->
            Err([kind |-> "RequestBuild", msg |-> "Unsupported HTTP method: " \o method])

\* a faulty variant of AuthHeaders: the bearer is sent whenever there is a token
AuthHeaders_AnyToken(self) ==
    IF IsSome(self.token)
    THEN MapInsert(EmptyMap, "Authorization", "Bearer " \o Unwrap(self.token).access_token)
    ELSE EmptyMap
\* the Authorization header: only with a token and no API key
AuthHeaders(self) ==
    IF self.api_key = None /\ IsSome(self.token)
    THEN MapInsert(EmptyMap, "Authorization", "Bearer " \o Unwrap(self.token).access_token)
    ELSE EmptyMap

\* the body and its Content-Type: only when there are body bytes
BodyHeaders(body_bytes) ==
    IF body_bytes # "" THEN MapInsert(EmptyMap, "Content-Type", "application/json")
    ELSE EmptyMap

\* the query parameters after the API key, if any, was applied
Authenticated(self, method, path, placed, time, nonce, iter) ==
    IF IsSome(self.api_key)
    THEN LET a == apply_params(Unwrap(self.api_key), method, path, placed.query,
                               placed.body, time, nonce, iter)
         IN  [query |-> a.params, signed |-> Some(a.signed)]
    ELSE [query |-> placed.query, signed |-> None]

\* do_request from its entry to the request it sends: Ok([req, signed]), or the
\* error it returns without sending
BuildRequest(self, path, method, param_json, time, nonce, iter) ==
    LET url == base_url(ConfigDefault) \o "/_special/rest/" \o path
        placed == PlaceParam(method, param_json)
    IN  IF ~IsHttpToken(method)
        THEN Err([kind |-> "RequestBuild", msg |-> "Invalid HTTP method: " \o method])
        ELSE IF ~placed.ok THEN placed
        ELSE LET auth == Authenticated(self, method, path, placed.v, time, nonce, iter)
             IN  Ok([req |-> [method |-> method,
                              url |-> url,
                              query |-> auth.query,
                              headers |-> MapInsert(AuthHeaders(self), "Sec-Rest-Http", "false")
                                          @@ BodyHeaders(placed.v.body),
                              body |-> placed.v.body],
                     signed |-> auth.signed])

(***************************************************************************)
(* RestContext::do_request, from the response on                           *)
(***************************************************************************)
IsClientError(status) == status >= 400 /\ status <= 499
IsServerError(status) == status >= 500 /\ status <= 599

\* a faulty variant of ParseResponse: a body that does not decode is a JSON error
\* whatever the status
ParseResponse_JsonOnly(resp) ==
    IF ~resp.delivered THEN Err([kind |-> "Reqwest"])
    ELSE LET decoded == ResponseFromSlice(resp.body)
         IN  IF decoded.ok
             THEN Ok([decoded.v EXCEPT !.request_id = resp.request_id])
             ELSE Err([kind |-> "Json"])
\* send, capture and parse: the decoded envelope with its request_id, or the error
ParseResponse(resp) ==
    IF ~resp.delivered THEN Err([kind |-> "Reqwest"])
    ELSE LET decoded == ResponseFromSlice(resp.body)
         IN  IF decoded.ok
             THEN Ok([decoded.v EXCEPT !.request_id = resp.request_id])
             ELSE IF IsClientError(resp.status) \/ IsServerError(resp.status)
                  THEN Err(RestErrorHttp(resp.status, FromUtf8Lossy(resp.body)))
                  ELSE Err([kind |-> "Json"])

\* the check that looks at the token marker alone
TokenExpired_MarkerAlone(self, response) ==
    IsSome(self.token) /\ response.token = Some("invalid_request_token")
\* the check for token expiration
TokenExpired(self, response) ==
    /\ IsSome(self.token)
    /\ response.token = Some("invalid_request_token")
    /\ response.extra = Some("token_expired")

\* a faulty variant of Dispatch: every redirect is an API error
Dispatch_NoLogin(response) ==
    IF response.result \in {"redirect", "error"} THEN Err(from_response(response))
    ELSE Ok(response)
\* redirect, error, or the envelope itself
Dispatch(response) ==
    IF response.result = "redirect"
    THEN IF response.exception = Some("Exception\\Login")
         THEN Err([kind |-> "LoginRequired"])
         ELSE Err(from_response(response))
    ELSE IF response.result = "error" THEN Err(from_response(response))
    ELSE Ok(response)

\* a faulty variant of RenewCheck: the refresh_token is checked first
RenewCheck_RefreshFirst(token) ==
    IF ~has_refresh_token(token) THEN Err([kind |-> "NoRefreshToken"])
    ELSE IF ~has_client_id(token) THEN Err([kind |-> "NoClientId"])
    ELSE Ok(token)
\* renew_token, before its request: the error it returns at once, if any
RenewCheck(token) ==
    IF ~has_client_id(token) THEN Err([kind |-> "NoClientId"])
    ELSE IF ~has_refresh_token(token) THEN Err([kind |-> "NoRefreshToken"])
    ELSE Ok(token)

\* a Context for the refresh request that keeps a token
NoAuthContext_WithToken ==
    [token |-> Some([access_token |-> "access-1", refresh_token |-> "refresh-1",
                     token_type |-> "Bearer", client_id |-> "client-1",
                     expires_in |-> 3600]),
     api_key |-> None]
\* renew_token: the Context that sends the refresh request, and its params
NoAuthContext == [token |-> None, api_key |-> None]
RefreshParams(token) ==
    JObj(<< <<"client_id", JStr(token.client_id)>>,
            <<"grant_type", JStr("refresh_token")>>,
            <<"noraw", JStr("true")>>,
            <<"refresh_token", JStr(token.refresh_token)>> >>)

\* renew_token: the update of the token from the decoded one
UpdateToken(token, renewed) ==
    [token EXCEPT !.access_token = renewed.access_token,
                  !.refresh_token = renewed.refresh_token,
                  !.expires_in = renewed.expires_in]

\* a faulty variant of RetryContext: the retry keeps the token it had
RetryContext_Stale(self, token) == self
\* the Context the request is retried on
RetryContext(self, token) == [self EXCEPT !.token = Some(token)]

\* what an invocation does with its response: it returns r, or it renews the token
Responded(self, resp) ==
    LET parsed == ParseResponse(resp)
    IN  IF ~parsed.ok THEN [kind |-> "return", r |-> parsed]
        ELSE IF TokenExpired(self, parsed.v)
        THEN LET pre == RenewCheck(Unwrap(self.token))
             IN  IF pre.ok THEN [kind |-> "renew", r |-> pre]
                 ELSE [kind |-> "return", r |-> pre]
        ELSE [kind |-> "return", r |-> Dispatch(parsed.v)]

(***************************************************************************)
(* The inputs of the model                                                 *)
(***************************************************************************)
Key1 == [key_id |-> "key-1", secret |-> "c2ln"]
TokenFull == NewToken("access-1", "refresh-1", "client-1", 3600)
Tokens ==
    { TokenFull,
      NewToken("access-1", "refresh-1", "", 3600),
      NewToken("access-1", "", "client-1", 3600),
      NewToken("access-1", "", "", 3600) }
Contexts ==
    { [token |-> t, api_key |-> k] :
        t \in {None} \cup {Some(x) : x \in Tokens}, k \in {None, Some(Key1)} }

Methods == {"GET", "HEAD", "OPTIONS", "PUT", "POST", "PATCH", "DELETE", "get", "TRACE", "G T"}
Params == {JObj(<<>>), JObj(<< <<"a", JNum(1)>> >>)}
\* the calls the caller may make: every method with every param on one path, and a
\* query method and a body method on another
Calls ==
    { [path |-> "Misc/Debug:echo", method |-> m, param |-> p] : m \in Methods, p \in Params }
        \cup { [path |-> "User:get", method |-> m, param |-> JObj(<<>>)] : m \in {"GET", "POST"} }
\* the second the system clock may show during the call
Times == {1700000000, 1700000001}
\* SystemTime::now() as read by apply_params: a Context without an API key never
\* reads the clock
Clock(self) == IF IsSome(self.api_key) THEN Times ELSE {0}
\* Uuid::new_v4(): a fresh value at every use, the n-th use yielding Uuids[n]
Uuids == <<"0b5e", "9c1d", "3fa2", "77c0", "e1d4", "5b90">>

\* the keys of the map generate_signature iterates for this method
OrdersInQuery == IterOrders({"_", "_key", "_time", "_nonce"})
OrdersInBody == IterOrders({"_key", "_time", "_nonce"})
SignedOrders(method) ==
    IF method \in {"GET", "HEAD", "OPTIONS"} THEN OrdersInQuery ELSE OrdersInBody
\* the iteration orders a request of this Context may meet when it is signed
Orders(self, method) == IF IsSome(self.api_key) THEN SignedOrders(method) ELSE {<<>>}

Envelope(members) == [json |-> JObj(members)]
TokenData(refresh_token) ==
    JObj(<< <<"access_token", JStr("access-2")>>,
            <<"expires_in", JNum(7200)>>,
            <<"refresh_token", JStr(refresh_token)>>,
            <<"token_type", JStr("Bearer")>> >>)
EnvSuccess == Envelope(<< <<"data", JStr("hello")>>, <<"result", JStr("success")>> >>)
EnvSuccessNoData == Envelope(<< <<"result", JStr("success")>> >>)
EnvToken == Envelope(<< <<"data", TokenData("refresh-2")>>, <<"result", JStr("success")>> >>)
EnvTokenNoRefresh == Envelope(<< <<"data", TokenData("")>>, <<"result", JStr("success")>> >>)
EnvError ==
    Envelope(<< <<"code", JNum(403)>>, <<"error", JStr("denied")>>,
                <<"result", JStr("error")>> >>)
EnvErrorBare == Envelope(<< <<"result", JStr("error")>> >>)
EnvLogin ==
    Envelope(<< <<"exception", JStr("Exception\\Login")>>, <<"result", JStr("redirect")>> >>)
EnvRedirect ==
    Envelope(<< <<"exception", JStr("Exception\\Other")>>, <<"result", JStr("redirect")>> >>)
EnvExpired ==
    Envelope(<< <<"error", JStr("expired")>>, <<"extra", JStr("token_expired")>>,
                <<"result", JStr("error")>>, <<"token", JStr("invalid_request_token")>> >>)
EnvExpiredLogin ==
    Envelope(<< <<"exception", JStr("Exception\\Login")>>, <<"extra", JStr("token_expired")>>,
                <<"result", JStr("redirect")>>, <<"token", JStr("invalid_request_token")>> >>)
EnvInvalidToken ==
    Envelope(<< <<"extra", JStr("token_revoked")>>, <<"result", JStr("error")>>,
                <<"token", JStr("invalid_request_token")>> >>)
EnvExpiredNoToken ==
    Envelope(<< <<"error", JStr("expired")>>, <<"extra", JStr("token_expired")>>,
                <<"result", JStr("error")>> >>)
EnvPending == Envelope(<< <<"result", JStr("pending")>> >>)
Envelopes ==
    { EnvSuccess, EnvSuccessNoData, EnvToken, EnvTokenNoRefresh, EnvError, EnvErrorBare,
      EnvLogin, EnvRedirect, EnvExpired, EnvExpiredLogin, EnvInvalidToken,
      EnvExpiredNoToken, EnvPending }
\* bodies that do not decode as an envelope
BodyNoResult == Envelope(<< <<"data", JStr("hello")>> >>)
BodyText == [text |-> "Bad Gateway"]
BodyBinary == [binary |-> <<255, 254>>]
Undecodable == {BodyNoResult, BodyText, BodyBinary}

Http(status, request_id, body) ==
    [delivered |-> TRUE, status |-> status, request_id |-> request_id, body |-> body]
TransportFailure ==
    [delivered |-> FALSE, status |-> 0, request_id |-> None, body |-> BodyText]
\* what the server, or the network, may answer to a request
Responses ==
    {Http(200, Some("req-1"), e) : e \in Envelopes}
        \cup {Http(200, None, EnvSuccess), Http(403, None, EnvError)}
        \cup {Http(st, None, b) : st \in {200, 302, 404, 500}, b \in Undecodable}
        \cup {TransportFailure}

(***************************************************************************)
(* Spec: the caller's do_request calls                                     *)
(***************************************************************************)
Frame(self, path, method, param_json, role) ==
    [self |-> self, path |-> path, method |-> method, param_json |-> param_json,
     role |-> role]
\* the UUID the next signed request gets
NextUuid == Uuids[1 + Cardinality({i \in 1..Len(wire) : IsSome(wire[i].signed)})]
Sent(role, self, built) ==
    [role |-> role, self |-> self, req |-> built.req, signed |-> built.signed]
Retries == Cardinality({i \in 1..Len(wire) : wire[i].role = "retry"})

Init ==
    /\ ctx \in Contexts
    /\ call = None
    /\ stack = <<>>
    /\ wire = <<>>
    /\ answers = <<>>
    /\ result = None
    /\ refreshed = None
    /\ sigIn = None
    /\ sigOut = <<>>
    /\ UploadIdle
    /\ NwgIdle
    /\ LibIdle

\* the caller calls ctx.do_request(path, method, param) while the clock shows time:
\* the request is built and sent, or the call fails before sending
DoRequest(path, method, param, time) ==
    /\ call = None
    /\ \E iter \in Orders(ctx, method) :
         LET built == BuildRequest(ctx, path, method, param, time, NextUuid, iter)
         IN  /\ call' = Some([path |-> path, method |-> method, param |-> param,
                              time |-> time])
             /\ IF built.ok
                THEN /\ wire' = <<Sent("main", ctx, built.v)>>
                     /\ stack' = <<Frame(ctx, path, method, param, "main")>>
                     /\ result' = None
                ELSE /\ wire' = <<>>
                     /\ stack' = <<>>
                     /\ result' = Some(built)
    /\ UNCHANGED <<ctx, answers, refreshed, sigVars, upVars, nwgVars, libVars>>

\* the response to the request of a do_request invocation of the caller's call (the
\* first, or a retry) arrives: the invocation returns, or it starts renew_token,
\* which sends the refresh request
Respond(resp) ==
    /\ stack # <<>>
    /\ Last(stack).role \in {"main", "retry"}
    /\ LET frame == Last(stack)
           out == Responded(frame.self, resp)
           refresh == BuildRequest(NoAuthContext, "OAuth2:token", "POST",
                                   RefreshParams(out.r.v), Unwrap(call).time, NextUuid, <<>>)
       IN  /\ answers' = Append(answers, resp)
           /\ IF out.kind = "return"
              THEN /\ stack' = <<>>
                   /\ result' = Some(out.r)
                   /\ wire' = wire
              ELSE /\ stack' = Append(stack, Frame(NoAuthContext, "OAuth2:token", "POST",
                                                   RefreshParams(out.r.v), "refresh"))
                   /\ wire' = Append(wire, Sent("refresh", NoAuthContext, refresh.v))
                   /\ result' = result
    /\ UNCHANGED <<ctx, call, refreshed, sigVars, upVars, nwgVars, libVars>>

\* the response to the refresh request arrives: renew_token fails and so does the
\* call, or the token is updated and the request is sent again on a clone of the
\* Context that holds it
RespondRefresh(resp) ==
    /\ stack # <<>>
    /\ Last(stack).role = "refresh"
    /\ LET parent == stack[Len(stack) - 1]
           out == Responded(Last(stack).self, resp)
           renewed == IF out.r.ok THEN ApplyToken(out.r.v) ELSE out.r
           token == UpdateToken(Unwrap(parent.self.token), renewed.v)
           retry_ctx == RetryContext(parent.self, token)
       IN  /\ answers' = Append(answers, resp)
           /\ IF ~renewed.ok
              THEN /\ stack' = <<>>
                   /\ result' = Some(renewed)
                   /\ UNCHANGED <<wire, refreshed>>
              ELSE /\ Retries < MaxRetries
                   /\ \E iter \in Orders(retry_ctx, parent.method) :
                        LET built == BuildRequest(retry_ctx, parent.path, parent.method,
                                                  parent.param_json, Unwrap(call).time,
                                                  NextUuid, iter)
                        IN  /\ wire' = Append(wire, Sent("retry", retry_ctx, built.v))
                            /\ stack' = <<Frame(retry_ctx, parent.path, parent.method,
                                                parent.param_json, "retry")>>
                   /\ refreshed' = Some(token)
                   /\ result' = result
    /\ UNCHANGED <<ctx, call, sigVars, upVars, nwgVars, libVars>>

Next ==
    \/ \E c \in Calls, time \in Clock(ctx) : DoRequest(c.path, c.method, c.param, time)
    \/ \E resp \in Responses : Respond(resp)
    \/ \E resp \in Responses : RespondRefresh(resp)

Spec == Init /\ [][Next]_vars

(***************************************************************************)
(* SpecSig: generate_signature on one input, called again and again while  *)
(* the HashMap iterates in any order and the caller adds, changes or       *)
(* removes the "_sign" entry of the map                                    *)
(***************************************************************************)
\* the query maps: business pairs, with or without a "_sign" left by the caller
SigQueries ==
    { q \in UNION { [ks -> {"1", "x y", "sigA"}] : ks \in SUBSET {"a", "b", "_sign"} } :
        /\ "a" \in DOMAIN q => q["a"] = "1"
        /\ "b" \in DOMAIN q => q["b"] = "x y"
        /\ "_sign" \in DOMAIN q => q["_sign"] = "sigA" }
SigInputs ==
    { [api_key |-> Key1, method |-> m, path |-> "Misc/Debug:echo", query_params |-> q,
       body |-> b] : m \in {"GET", "POST"}, q \in SigQueries, b \in {"", "{}"} }
SignValues == {"sigA", "sigB"}

InitSig ==
    /\ sigIn \in {Some(i) : i \in SigInputs}
    /\ sigOut = <<>>
    /\ ctx = NoAuthContext
    /\ call = None
    /\ stack = <<>>
    /\ wire = <<>>
    /\ answers = <<>>
    /\ result = None
    /\ refreshed = None
    /\ UploadIdle
    /\ NwgIdle
    /\ LibIdle

\* generate_signature is called; the map is iterated in the order iter
SigCall(iter) ==
    /\ Len(sigOut) < MaxSigCalls
    /\ LET in == Unwrap(sigIn)
       IN  sigOut' = Append(sigOut,
                [in |-> in, iter |-> iter,
                 out |-> generate_signature(in.api_key, in.method, in.path,
                                            in.query_params, in.body, iter)])
    /\ UNCHANGED <<sigIn, restVars, upVars, nwgVars, libVars>>

\* the caller inserts or overwrites "_sign" in the map
SigSetSign(value) ==
    /\ Len(sigOut) < MaxSigCalls
    /\ sigIn' = Some([Unwrap(sigIn) EXCEPT
                        !.query_params = MapInsert(@, "_sign", value)])
    /\ sigIn' # sigIn
    /\ UNCHANGED <<sigOut, restVars, upVars, nwgVars, libVars>>

\* the caller removes "_sign" from the map
SigDropSign ==
    /\ Len(sigOut) < MaxSigCalls
    /\ "_sign" \in DOMAIN Unwrap(sigIn).query_params
    /\ sigIn' = Some([Unwrap(sigIn) EXCEPT !.query_params = MapWithout(@, "_sign")])
    /\ UNCHANGED <<sigOut, restVars, upVars, nwgVars, libVars>>

NextSig ==
    \/ \E iter \in IterOrders(DOMAIN Unwrap(sigIn).query_params) : SigCall(iter)
    \/ \E value \in SignValues : SigSetSign(value)
    \/ SigDropSign

SpecSig == InitSig /\ [][NextSig]_vars

(***************************************************************************)
(* NumeralWaitGroup (src/src/upload.rs): the count under its mutex         *)
(***************************************************************************)
\* add taking the delta away from the count
NwgAdd_Negated(count, delta) == count - delta
\* add counting every unit twice
NwgAdd_Twice(count, delta) == count + 2 * delta
\* add: the count after add(delta)
NwgAdd(count, delta) == count + delta
\* add that notifies when the count grows, and not when it falls
NwgNotifies_OnIncrement(delta) == delta > 0
\* add: whether it ends with notify_all
NwgNotifies(delta) == delta < 0
\* wait blocking as long as the count has not fallen below min
NwgMustWait_AtLeast(count, min) == count >= min
\* wait: the loop condition, read under the lock; wait(min) blocks while it holds
NwgMustWait(count, min) == count > min

(***************************************************************************)
(* upload() and UploadInfo (src/src/upload.rs)                             *)
(***************************************************************************)
\* a call on the wait group of an upload, made for the part part_no
NwgCallOf(op, part_no) == [op |-> op, part |-> part_no]

\* the limits of the strategies, in bytes
PutLimit == Size(5 * 1024, 0)
AwsThreshold == Size(64, 0)
AwsLimit == Size(5 * 1024 * 1024, 0)
\* the divisor of the part-size policy, in MiB, and its floor
PartSizeDivisor == 10000
MinPartSize == 5
\* UploadInfo::prepare: the defaults of the public fields
DefaultMaxPartSize == 1024
DefaultParallelUploads == 3

\* A reader is [len, seekable, broken]: its length in bytes, whether seek works on
\* it, and whether read fails on it. The reader of an upload stands at the offset
\* pos; the length of a reader that cannot seek is that of the bytes still to read.
\* reader.seek(End(0)) and back to Start(0): the size, if both work
SizeProbe(reader) == IF reader.seekable THEN Some(reader.len) ELSE None
\* where the reader stands after the probe: seek(Start(0)) has moved it, or no seek
\* has worked
Rewound(reader, pos) == IF reader.seekable THEN Bytes(0) ELSE pos

\* params.entry("size").or_insert(size), on the members of an object kept in key order
RECURSIVE OrInsert(_, _, _)
OrInsert(members, key, value) ==
    IF members = <<>> THEN << <<key, value>> >>
    ELSE IF members[1][1] = key THEN members
    ELSE IF StrLess(key, members[1][1]) THEN << <<key, value>> >> \o members
    ELSE <<members[1]>> \o OrInsert(Tail(members), key, value)
\* the mutant of NegotiationParams: the size probed replaces the size of the caller
NegotiationParams_Overwrite(params, file_size) ==
    IF IsSome(file_size)
    THEN JObj(OrInsert(SelectSeq(params.obj, LAMBDA m : m[1] # "size"), "size",
                       JNum64(Unwrap(file_size))))
    ELSE params
\* the params of the negotiation call
NegotiationParams(params, file_size) ==
    IF IsSome(file_size)
    THEN JObj(OrInsert(params.obj, "size", JNum64(Unwrap(file_size))))
    ELSE params

\* req.get(key).and_then(|v| v.as_str())
GetStr(req, key) ==
    IF JHas(req, key) /\ IsStr(JGet(req, key)) THEN Some(JGet(req, key).str) ELSE None
\* req.get(key).and_then(|v| v.as_f64()) as i64, for the whole numbers of the model
GetI64(req, key) ==
    IF JHas(req, key) /\ IsNum(JGet(req, key)) THEN Some(Bytes(JGet(req, key).num))
    ELSE None
\* req.get(key).and_then(|v| v.as_object())
GetObject(req, key) ==
    IF JHas(req, key) /\ IsObj(JGet(req, key)) THEN Some(JGet(req, key)) ELSE None

\* response.apply::<HashMap<String, Value>>()
ApplyMap(response) ==
    IF IsSome(response.data) /\ IsObj(Unwrap(response.data)) THEN Ok(Unwrap(response.data))
    ELSE Err([kind |-> "Json"])

RestErrorOther(msg) == [kind |-> "Other", msg |-> msg]

\* the AWS fields of the plan: all of them, or none
AwsFields(req) ==
    LET bucket == GetObject(req, "Bucket_Endpoint")
        set == /\ IsSome(GetStr(req, "Cloud_Aws_Bucket_Upload__"))
               /\ IsSome(bucket)
               /\ IsSome(GetStr(req, "Key"))
               /\ IsSome(GetStr(Unwrap(bucket), "Region"))
               /\ IsSome(GetStr(Unwrap(bucket), "Name"))
               /\ IsSome(GetStr(Unwrap(bucket), "Host"))
    IN  IF set
        THEN [aws_id |-> GetStr(req, "Cloud_Aws_Bucket_Upload__"),
              aws_key |-> GetStr(req, "Key"),
              aws_region |-> GetStr(Unwrap(bucket), "Region"),
              aws_name |-> GetStr(Unwrap(bucket), "Name"),
              aws_host |-> GetStr(Unwrap(bucket), "Host")]
        ELSE [aws_id |-> None, aws_key |-> None, aws_region |-> None, aws_name |-> None,
              aws_host |-> None]

\* UploadInfo::prepare taking a missing Complete for an empty path
prepare_CompleteOptional(req) ==
    LET complete_path == IF GetStr(req, "Complete") = None THEN ""
                         ELSE Unwrap(GetStr(req, "Complete"))
        base == [put |-> Unwrap(GetStr(req, "PUT")),
                 complete |-> complete_path,
                 max_part_size |-> DefaultMaxPartSize,
                 parallel_uploads |-> DefaultParallelUploads,
                 progress |-> FALSE,
                 blocksize |-> None,
                 aws_upload_id |-> None,
                 aws_tags |-> <<>>]
        none == [aws_id |-> None, aws_key |-> None, aws_region |-> None, aws_name |-> None,
                 aws_host |-> None]
    IN  IF GetStr(req, "PUT") = None THEN Err(RestErrorOther("Missing PUT parameter"))
        ELSE IF IsSome(GetI64(req, "Blocksize"))
        THEN Ok([base EXCEPT !.blocksize = GetI64(req, "Blocksize")] @@ none)
        ELSE Ok(base @@ AwsFields(req))
\* UploadInfo::prepare: the UploadInfo for a plan, or the error
prepare(req) ==
    LET base == [put |-> Unwrap(GetStr(req, "PUT")),
                 complete |-> Unwrap(GetStr(req, "Complete")),
                 max_part_size |-> DefaultMaxPartSize,
                 parallel_uploads |-> DefaultParallelUploads,
                 progress |-> FALSE,
                 blocksize |-> None,
                 aws_upload_id |-> None,
                 aws_tags |-> <<>>]
        none == [aws_id |-> None, aws_key |-> None, aws_region |-> None, aws_name |-> None,
                 aws_host |-> None]
    IN  IF GetStr(req, "PUT") = None THEN Err(RestErrorOther("Missing PUT parameter"))
        ELSE IF GetStr(req, "Complete") = None
        THEN Err(RestErrorOther("Missing Complete parameter"))
        ELSE IF IsSome(GetI64(req, "Blocksize"))
        THEN Ok([base EXCEPT !.blocksize = GetI64(req, "Blocksize")] @@ none)
        ELSE Ok(base @@ AwsFields(req))

\* do_upload with the S3 threshold taken as "at least 64 MiB"
ChooseMethod_AtThreshold(info, file_size) ==
    IF IsSome(info.blocksize) THEN "part_upload"
    ELSE IF IsSome(info.aws_id)
    THEN IF file_size = None \/ ~SzLess(Unwrap(file_size), AwsThreshold) THEN "aws_upload"
         ELSE "put_upload"
    ELSE "put_upload"
\* do_upload: the method it chooses
ChooseMethod(info, file_size) ==
    IF IsSome(info.blocksize) THEN "part_upload"
    ELSE IF IsSome(info.aws_id)
    THEN IF file_size = None \/ SzLess(AwsThreshold, Unwrap(file_size)) THEN "aws_upload"
         ELSE "put_upload"
    ELSE "put_upload"

\* the mutant of Spool: the part is what one read of a byte returns
Spool_OneByte(reader, pos, limit) ==
    IF ~SzLess(Bytes(0), limit) THEN Ok(Bytes(0))
    ELSE IF reader.broken THEN Err([kind |-> "Io"])
    ELSE Ok(SzMin(Bytes(1), SzSub(reader.len, pos)))
\* the reads of one part: the bytes copied when at most limit bytes are read from the
\* reader at offset pos, or the error of the first read
Spool(reader, pos, limit) ==
    IF ~SzLess(Bytes(0), limit) THEN Ok(Bytes(0))
    ELSE IF reader.broken THEN Err([kind |-> "Io"])
    ELSE Ok(SzMin(limit, SzSub(reader.len, pos)))
\* reader.read_to_end
ReadToEnd(reader, pos) ==
    IF reader.broken THEN Err([kind |-> "Io"]) ELSE Ok(SzSub(reader.len, pos))

\* response.status() as it is displayed
StatusLine(status) ==
    CASE status = 200 -> "200 OK"
      [] status = 204 -> "204 No Content"
      [] status = 403 -> "403 Forbidden"
      [] status = 500 -> "500 Internal Server Error"
IsSuccess(status) == status >= 200 /\ status <= 299

\* format!("bytes {}-{}/*", start, end)
ContentRange(start, end) == "bytes " \o I64Text(start) \o "-" \o I64Text(end) \o "/*"
\* upload_part: start and end of the part
\* the start of a part counted from the number of the part, not from the one before
PartStart_FromNumber(part_no, blocksize) == SzTimes(part_no, blocksize)
PartStart(part_no, blocksize) == SzTimes(part_no - 1, blocksize)
PartEnd_Exclusive(part_no, size, blocksize) == SzAdd(PartStart(part_no, blocksize), size)
PartEnd(part_no, size, blocksize) == SzSub(SzAdd(PartStart(part_no, blocksize), size), Bytes(1))

\* set_tag
RECURSIVE PushEmpty(_, _)
PushEmpty(tags, pos) == IF Len(tags) <= pos THEN PushEmpty(Append(tags, ""), pos) ELSE tags
\* the tag pushed at the end of the vector, wherever its part belongs
set_tag_Push(tags, part_no, tag) == Append(tags, tag)
set_tag_OffByOne(tags, part_no, tag) ==
    LET pos == part_no
    IN  [PushEmpty(tags, pos) EXCEPT ![pos + 1] = tag]
set_tag(tags, part_no, tag) ==
    LET pos == part_no - 1
    IN  [PushEmpty(tags, pos) EXCEPT ![pos + 1] = tag]

\* aws_finalize: the XML
RECURSIVE PartsXml(_, _)
PartsXml(tags, n) ==
    IF n > Len(tags) THEN ""
    ELSE "<Part><PartNumber>" \o ToString(n) \o "</PartNumber><ETag>" \o tags[n]
         \o "</ETag></Part>" \o PartsXml(tags, n + 1)
FinalizeXml(tags) ==
    "<CompleteMultipartUpload>" \o PartsXml(tags, 1) \o "</CompleteMultipartUpload>"

\* the policy without its floor of 5 MiB
PartSizePolicy_NoFloor(size) == size.mib \div PartSizeDivisor
\* aws_upload: the part-size policy
PartSizePolicy(size) ==
    LET q == size.mib \div PartSizeDivisor
    IN  IF q > MinPartSize THEN q ELSE MinPartSize

\* quick_xml::de::from_str::<UploadAwsResp>: the UploadId, or the error
ParseUploadAwsResp(body) ==
    IF ReqStr(body, "Bucket") /\ ReqStr(body, "Key") /\ ReqStr(body, "UploadId")
    THEN Ok(JGet(body, "UploadId").str)
    ELSE Err(RestErrorOther("Failed to parse AWS response"))
\* auth_response.apply::<UploadAuth>()
ApplyAuth(response) ==
    IF /\ IsSome(response.data) /\ IsObj(Unwrap(response.data))
       /\ ReqStr(Unwrap(response.data), "authorization")
    THEN Ok(JGet(Unwrap(response.data), "authorization").str)
    ELSE Err([kind |-> "Json"])

\* The body of an upload request is [text |-> string], or [from, len]: the len bytes
\* of the reader from offset from on.
TextBody(text) == [text |-> text]
ReaderBody(from, len) == [from |-> from, len |-> len]
BodyIsEmpty(body) == IF "text" \in DOMAIN body THEN body.text = "" ELSE body.len = Bytes(0)
EmptySha256 == "e3b0c44298fc1c149afbf4c8996fb92427ae41e4649b934ca495991b7852b855"
\* aws_request: the body hash
BodyHash(body) ==
    IF BodyIsEmpty(body) THEN EmptySha256
    ELSE IF "text" \in DOMAIN body THEN "hex(" \o Sha256(body.text) \o ")"
    ELSE "hex(" \o Sha256("reader[" \o I64Text(body.from) \o "+" \o I64Text(body.len) \o "]")
         \o ")"
\* the clock of aws_request and the timestamp chrono formats for it
UploadClock == 1700000000
AmzTimestamp(secs) ==
    CASE secs = 1700000000 -> "20231114T221320Z"
      [] secs = 1700000001 -> "20231114T221321Z"
AmzDate(timestamp) == SubSeq(timestamp, 1, 8)
\* auth_parts.join("\n")
LF == "\n"
AuthString(info, timestamp, method, query) ==
    "AWS4-HMAC-SHA256" \o LF \o timestamp \o LF
        \o AmzDate(timestamp) \o "/" \o Unwrap(info.aws_region) \o "/s3/aws4_request" \o LF
        \o method \o LF
        \o "/" \o Unwrap(info.aws_name) \o "/" \o Unwrap(info.aws_key) \o LF
        \o query \o LF
        \o "host:" \o Unwrap(info.aws_host)
AwsUrl(info, query) ==
    "https://" \o Unwrap(info.aws_host) \o "/" \o Unwrap(info.aws_name) \o "/"
        \o Unwrap(info.aws_key) \o "?" \o query

(***************************************************************************)
(* SpecUpload: one upload, step by step.  The thread of upload() runs      *)
(* from one request to the next; an action is the arrival of the response *)
(* to the request it waits for, with all it does up to its next request.   *)
(***************************************************************************)
\* the Context of the upload: it holds a token
UploadContext == [token |-> Some(TokenFull), api_key |-> None]
\* what a step leaves: the upload, the events, and the result if upload returned
Out(u, ev, res) == [up |-> u, events |-> ev, result |-> res]
Fail(u, ev, e) == Out([u EXCEPT !.pc = "done"], ev, Some(Err(e)))
\* the thread waits in nwg.wait for a notification
Blocked(u, ev) == Out([u EXCEPT !.pc = "blocked"], ev, None)
\* the thread panics: upload does not return
Panicked(u, ev) == Out([u EXCEPT !.pc = "panicked"], ev, None)
\* (self.parallel_uploads - 1) as i32, on a usize: for 0 the subtraction overflows,
\* which panics in a build with overflow checks and wraps to usize::MAX, -1 as an
\* i32, in a build without them
WaitLimit(u) ==
    IF u.info.parallel_uploads = 0
    THEN IF u.overflow_checks THEN Panic("attempt to subtract with overflow") ELSE Ok(-1)
    ELSE Ok(u.info.parallel_uploads - 1)

\* report_progress
ReportProgress(u, ev, bytes) ==
    IF u.info.progress THEN Append(ev, [kind |-> "progress", delta |-> bytes]) ELSE ev

\* self.ctx.do_request(path, method, param), up to request.send()
SendApi(u, ev, role, path, method, param) ==
    LET built == BuildRequest(UploadContext, path, method, param, 0, "", <<>>)
    IN  IF built.ok
        THEN Out([u EXCEPT !.pc = role],
                 Append(ev, [kind |-> "api", role |-> role, path |-> path,
                             param |-> param, req |-> built.v.req]),
                 None)
        ELSE Fail(u, ev, built.v)

\* UploadInfo::complete made with GET
complete_Get(u, ev) == SendApi(u, ev, "complete", u.info.complete, "GET", JObj(<<>>))
\* UploadInfo::complete
complete(u, ev) == SendApi(u, ev, "complete", u.info.complete, "POST", JObj(<<>>))

\* aws_request, up to the signV4 call: the request to sign is kept for later
aws_request(u, ev, op, method, query, body, headers) ==
    LET timestamp == AmzTimestamp(UploadClock)
        signed == MapInsert(MapInsert(headers, "X-Amz-Content-Sha256", BodyHash(body)),
                            "X-Amz-Date", timestamp)
        pending == [op |-> op, method |-> method, query |-> query, body |-> body,
                    headers |-> signed]
    IN  SendApi([u EXCEPT !.pending = Some(pending)], ev, "sign",
                "Cloud/Aws/Bucket/Upload/" \o Unwrap(u.info.aws_id) \o ":signV4", "POST",
                JObj(<< <<"headers", JStr(AuthString(u.info, timestamp, method, query))>> >>))

\* put_upload without the 5 GiB limit
put_upload_NoLimit(u, ev) ==
    IF u.file_size = None
    THEN Fail(u, ev, RestErrorOther("File size required for PUT upload"))
    ELSE LET buffer == ReadToEnd(u.reader, u.pos)
         IN  IF ~buffer.ok THEN Fail(u, ev, buffer.v)
             ELSE Out([u EXCEPT !.pc = "put", !.pos = SzAdd(u.pos, buffer.v)],
                      Append(ev, [kind |-> "put", part |-> 0, method |-> "PUT",
                                  url |-> u.info.put,
                                  headers |-> MapInsert(EmptyMap, "Content-Type", u.mime),
                                  body |-> ReaderBody(u.pos, buffer.v)]),
                      None)
\* put_upload, up to the PUT
put_upload(u, ev) ==
    IF u.file_size = None
    THEN Fail(u, ev, RestErrorOther("File size required for PUT upload"))
    ELSE IF SzLess(PutLimit, Unwrap(u.file_size))
    THEN Fail(u, ev, RestErrorOther("File too large for PUT upload (>5GB)"))
    ELSE LET buffer == ReadToEnd(u.reader, u.pos)
         IN  IF ~buffer.ok THEN Fail(u, ev, buffer.v)
             ELSE Out([u EXCEPT !.pc = "put", !.pos = SzAdd(u.pos, buffer.v)],
                      Append(ev, [kind |-> "put", part |-> 0, method |-> "PUT",
                                  url |-> u.info.put,
                                  headers |-> MapInsert(EmptyMap, "Content-Type", u.mime),
                                  body |-> ReaderBody(u.pos, buffer.v)]),
                      None)

\* part_upload after its loop: nwg.wait(0), then complete
PartDrain(u, ev) ==
    IF NwgMustWait(u.count, 0) THEN Blocked(u, ev) ELSE complete(u, ev)

\* part_upload from the top of its loop to the PUT of upload_part, or to complete
PartLoop(u, ev) ==
    LET blocksize == Unwrap(u.info.blocksize)
        part_no == u.part_no + 1
        copied == Spool(u.reader, u.pos, blocksize)
        start == PartStart(part_no, blocksize)
        end == PartEnd(part_no, copied.v, blocksize)
    IN  IF ~WaitLimit(u).ok THEN Panicked(u, ev)
        ELSE IF NwgMustWait(u.count, WaitLimit(u).v) THEN Blocked(u, ev)
        ELSE IF ~copied.ok THEN Fail([u EXCEPT !.part_no = part_no], ev, copied.v)
        ELSE IF copied.v = Bytes(0) THEN PartDrain([u EXCEPT !.part_no = part_no], ev)
        ELSE Out([u EXCEPT !.pc = "part", !.part_no = part_no, !.copied = copied.v,
                           !.pos = SzAdd(u.pos, copied.v), !.count = NwgAdd(u.count, 1),
                           !.calls = Append(@, NwgCallOf("add", part_no))],
                 Append(ev, [kind |-> "put", part |-> part_no, method |-> "PUT",
                             url |-> u.info.put,
                             headers |-> MapInsert(MapInsert(EmptyMap, "Content-Type", u.mime),
                                                   "Content-Range", ContentRange(start, end)),
                             range |-> [start |-> start, end |-> end],
                             body |-> ReaderBody(u.pos, copied.v)]),
                 None)

\* aws_finalize, up to its request
aws_finalize(u, ev) ==
    aws_request(u, ev, "finalize", "POST", "uploadId=" \o Unwrap(u.info.aws_upload_id),
                TextBody(FinalizeXml(u.info.aws_tags)),
                MapInsert(EmptyMap, "Content-Type", "text/xml"))

\* aws_upload after its loop: nwg.wait(0), then aws_finalize
AwsDrain(u, ev) ==
    IF NwgMustWait(u.count, 0) THEN Blocked(u, ev) ELSE aws_finalize(u, ev)

\* the loop that leaves on any empty read, the first one too
AwsLoop_BreakOnEmpty(u, ev) ==
    LET max_bytes == Size(u.info.max_part_size, 0)
        part_no == u.part_no + 1
        copied == Spool(u.reader, u.pos, max_bytes)
        sent == [u EXCEPT !.part_no = part_no, !.copied = copied.v,
                          !.pos = SzAdd(u.pos, copied.v), !.count = NwgAdd(u.count, 1),
                           !.calls = Append(@, NwgCallOf("add", part_no))]
    IN  IF ~WaitLimit(u).ok THEN Panicked(u, ev)
        ELSE IF NwgMustWait(u.count, WaitLimit(u).v) THEN Blocked(u, ev)
        ELSE IF ~copied.ok THEN Fail([u EXCEPT !.part_no = part_no], ev, copied.v)
        ELSE IF copied.v = Bytes(0)
        THEN AwsDrain([u EXCEPT !.part_no = part_no], ev)
        ELSE aws_request(sent, ev, "part", "PUT",
                         "partNumber=" \o ToString(part_no) \o "&uploadId="
                             \o Unwrap(u.info.aws_upload_id),
                         ReaderBody(u.pos, copied.v), EmptyMap)
\* aws_upload from the top of its loop to the request of aws_upload_part, or to
\* aws_finalize
AwsLoop(u, ev) ==
    LET max_bytes == Size(u.info.max_part_size, 0)
        part_no == u.part_no + 1
        copied == Spool(u.reader, u.pos, max_bytes)
        sent == [u EXCEPT !.part_no = part_no, !.copied = copied.v,
                          !.pos = SzAdd(u.pos, copied.v), !.count = NwgAdd(u.count, 1),
                           !.calls = Append(@, NwgCallOf("add", part_no))]
    IN  IF ~WaitLimit(u).ok THEN Panicked(u, ev)
        ELSE IF NwgMustWait(u.count, WaitLimit(u).v) THEN Blocked(u, ev)
        ELSE IF ~copied.ok THEN Fail([u EXCEPT !.part_no = part_no], ev, copied.v)
        ELSE IF copied.v = Bytes(0) /\ part_no # 1
        THEN AwsDrain([u EXCEPT !.part_no = part_no], ev)
        ELSE aws_request(sent, ev, "part", "PUT",
                         "partNumber=" \o ToString(part_no) \o "&uploadId="
                             \o Unwrap(u.info.aws_upload_id),
                         ReaderBody(u.pos, copied.v), EmptyMap)

\* aws_upload, up to the request of aws_init
aws_upload(u, ev) ==
    LET sized == IF IsSome(u.file_size)
                 THEN [u EXCEPT !.info.max_part_size = PartSizePolicy(Unwrap(u.file_size))]
                 ELSE u
    IN  IF IsSome(u.file_size) /\ SzLess(AwsLimit, Unwrap(u.file_size))
        THEN Fail(u, ev, RestErrorOther("File exceeds AWS S3 5TB limit"))
        ELSE aws_request(sized, ev, "init", "POST", "uploads=", TextBody(""),
                         MapInsert(MapInsert(EmptyMap, "Content-Type", u.mime),
                                   "X-Amz-Acl", "private"))

\* do_upload without the report of 0 at its start
do_upload_NoInitialReport(u, ev) ==
    LET method == ChooseMethod(u.info, u.file_size)
        chosen == [u EXCEPT !.strategy = method]
    IN  CASE method = "part_upload" -> PartLoop(chosen, ev)
          [] method = "aws_upload" -> aws_upload(chosen, ev)
          [] method = "put_upload" -> put_upload(chosen, ev)
\* do_upload
do_upload(u, ev) ==
    LET started == ReportProgress(u, ev, Bytes(0))
        method == ChooseMethod(u.info, u.file_size)
        chosen == [u EXCEPT !.strategy = method]
    IN  CASE method = "part_upload" -> PartLoop(chosen, started)
          [] method = "aws_upload" -> aws_upload(chosen, started)
          [] method = "put_upload" -> put_upload(chosen, started)

\* upload(), up to the negotiation request
upload(u) ==
    LET file_size == SizeProbe(u.reader)
    IN  SendApi([u EXCEPT !.file_size = file_size, !.pos = Rewound(u.reader, u.pos)],
                <<>>, "negotiate", u.path, u.method,
                NegotiationParams(u.params, file_size))

\* upload(), from the response to the negotiation request on
Negotiated(u, ev, resp) ==
    LET response == Responded(UploadContext, resp).r
        upload_info == ApplyMap(response.v)
        uploader == prepare(upload_info.v)
    IN  IF ~response.ok THEN Fail(u, ev, response.v)
        ELSE IF ~upload_info.ok THEN Fail(u, ev, upload_info.v)
        ELSE IF ~uploader.ok THEN Fail(u, ev, uploader.v)
        ELSE do_upload([u EXCEPT !.info = [uploader.v EXCEPT
                                             !.progress = u.progress,
                                             !.parallel_uploads = u.parallel_uploads]],
                       ev)

\* put_upload going on to complete whatever the status of the PUT
PutResponded_AnyStatus(u, ev, resp) ==
    IF ~resp.delivered THEN Fail(u, ev, [kind |-> "Reqwest"])
    ELSE complete(u, ReportProgress(u, ev, Unwrap(u.file_size)))
\* put_upload, from the response to its PUT on
PutResponded(u, ev, resp) ==
    IF ~resp.delivered THEN Fail(u, ev, [kind |-> "Reqwest"])
    ELSE IF ~IsSuccess(resp.status)
    THEN Fail(u, ev, RestErrorHttp(resp.status,
                        TextBody("PUT upload failed with status " \o StatusLine(resp.status))))
    ELSE complete(u, ReportProgress(u, ev, Unwrap(u.file_size)))

\* the mutant of PartResponded: a part that was refused is passed over
PartResponded_PassOver(u, ev, resp) ==
    LET done == [u EXCEPT !.count = NwgAdd(u.count, -1),
                        !.calls = Append(@, NwgCallOf("done", u.part_no))]
        told == IF IsSuccess(resp.status) THEN ReportProgress(u, ev, u.copied) ELSE ev
    IN  IF ~resp.delivered THEN Fail(u, ev, [kind |-> "Reqwest"])
        ELSE IF SzLess(u.copied, Unwrap(u.info.blocksize)) THEN PartDrain(done, told)
        ELSE PartLoop(done, told)
\* upload_part, from the response to its PUT on, and part_upload after it
PartResponded(u, ev, resp) ==
    LET done == [u EXCEPT !.count = NwgAdd(u.count, -1),
                        !.calls = Append(@, NwgCallOf("done", u.part_no))]
    IN  IF ~resp.delivered THEN Fail(u, ev, [kind |-> "Reqwest"])
        ELSE IF ~IsSuccess(resp.status)
        THEN Fail(done, ev, RestErrorHttp(resp.status,
                        TextBody("Part upload failed with status " \o StatusLine(resp.status))))
        ELSE IF SzLess(u.copied, Unwrap(u.info.blocksize))
        THEN PartDrain(done, ReportProgress(u, ev, u.copied))
        ELSE PartLoop(done, ReportProgress(u, ev, u.copied))

\* the mutant of Signed: the S3 request is sent whatever the signV4 call returned,
\* without an Authorization when it has none
Signed_Regardless(u, ev, resp) ==
    LET auth_response == Responded(UploadContext, resp).r
        auth == IF auth_response.ok THEN ApplyAuth(auth_response.v) ELSE auth_response
        pending == Unwrap(u.pending)
    IN  Out([u EXCEPT !.pc = "s3"],
            Append(ev, [kind |-> "s3", op |-> pending.op, part |-> u.part_no,
                        method |-> pending.method,
                        url |-> AwsUrl(u.info, pending.query),
                        query |-> pending.query,
                        headers |-> IF auth.ok
                                    THEN MapInsert(pending.headers, "Authorization", auth.v)
                                    ELSE pending.headers,
                        body |-> pending.body]),
            None)
\* aws_request, from the response to the signV4 call to the S3 request
Signed(u, ev, resp) ==
    LET auth_response == Responded(UploadContext, resp).r
        auth == ApplyAuth(auth_response.v)
        pending == Unwrap(u.pending)
    IN  IF ~auth_response.ok THEN Fail(u, ev, auth_response.v)
        ELSE IF ~auth.ok THEN Fail(u, ev, auth.v)
        ELSE Out([u EXCEPT !.pc = "s3"],
                 Append(ev, [kind |-> "s3", op |-> pending.op, part |-> u.part_no,
                             method |-> pending.method,
                             url |-> AwsUrl(u.info, pending.query),
                             query |-> pending.query,
                             headers |-> MapInsert(pending.headers, "Authorization", auth.v),
                             body |-> pending.body]),
                 None)

\* aws_request from the response to the S3 request on, and its caller after it:
\* aws_init and the loop, aws_upload_part and the loop, or aws_finalize and complete
S3Responded(u, ev, resp) ==
    LET op == Unwrap(u.pending).op
        parsed == ParseUploadAwsResp(resp.body)
        tagged == [u EXCEPT !.info.aws_tags = set_tag(@, u.part_no, Unwrap(resp.etag)),
                            !.count = NwgAdd(u.count, -1),
                        !.calls = Append(@, NwgCallOf("done", u.part_no))]
        max_bytes == Size(u.info.max_part_size, 0)
    IN  IF ~resp.delivered THEN Fail(u, ev, [kind |-> "Reqwest"])
        ELSE IF ~IsSuccess(resp.status)
        THEN Fail(u, ev, RestErrorHttp(resp.status,
                        TextBody("AWS request failed with status " \o StatusLine(resp.status))))
        ELSE CASE op = "init" ->
                    IF ~parsed.ok THEN Fail(u, ev, parsed.v)
                    ELSE AwsLoop([u EXCEPT !.info.aws_upload_id = Some(parsed.v)], ev)
               [] op = "part" ->
                    IF resp.etag = None
                    THEN Fail(u, ev, RestErrorOther("Missing ETag in AWS response"))
                    ELSE IF SzLess(u.copied, max_bytes)
                    THEN AwsDrain(tagged, ReportProgress(u, ev, u.copied))
                    ELSE AwsLoop(tagged, ReportProgress(u, ev, u.copied))
               [] op = "finalize" -> complete(u, ev)

\* complete, from the response on: upload returns what do_request returns
Completed(u, ev, resp) ==
    Out([u EXCEPT !.pc = "done"], ev, Some(Responded(UploadContext, resp).r))

\* The inputs of SpecUpload.
\* the plans the negotiation may return
PutUrl == "https://up.example.com/put/1"
CompletePath == "Blob/Upload/blob-1:handleComplete"
BucketEndpoint ==
    JObj(<< <<"Host", JStr("s3.example.com")>>, <<"Name", JStr("bucket-1")>>,
            <<"Region", JStr("eu-west-1")>> >>)
BucketEndpointNoHost ==
    JObj(<< <<"Name", JStr("bucket-1")>>, <<"Region", JStr("eu-west-1")>> >>)
PlanPut == JObj(<< <<"Complete", JStr(CompletePath)>>, <<"PUT", JStr(PutUrl)>> >>)
PlanBlock(blocksize) ==
    JObj(<< <<"Blocksize", JNum(blocksize)>>, <<"Complete", JStr(CompletePath)>>,
            <<"PUT", JStr(PutUrl)>> >>)
PlanAws ==
    JObj(<< <<"Bucket_Endpoint", BucketEndpoint>>,
            <<"Cloud_Aws_Bucket_Upload__", JStr("clawsbu-1")>>,
            <<"Complete", JStr(CompletePath)>>, <<"Key", JStr("dir/file.bin")>>,
            <<"PUT", JStr(PutUrl)>> >>)
PlanBlockAws ==
    JObj(<< <<"Blocksize", JNum(2)>>, <<"Bucket_Endpoint", BucketEndpoint>>,
            <<"Cloud_Aws_Bucket_Upload__", JStr("clawsbu-1")>>,
            <<"Complete", JStr(CompletePath)>>, <<"Key", JStr("dir/file.bin")>>,
            <<"PUT", JStr(PutUrl)>> >>)
PlanAwsNoHost ==
    JObj(<< <<"Bucket_Endpoint", BucketEndpointNoHost>>,
            <<"Cloud_Aws_Bucket_Upload__", JStr("clawsbu-1")>>,
            <<"Complete", JStr(CompletePath)>>, <<"Key", JStr("dir/file.bin")>>,
            <<"PUT", JStr(PutUrl)>> >>)
PlanAwsNoKey ==
    JObj(<< <<"Bucket_Endpoint", BucketEndpoint>>,
            <<"Cloud_Aws_Bucket_Upload__", JStr("clawsbu-1")>>,
            <<"Complete", JStr(CompletePath)>>, <<"PUT", JStr(PutUrl)>> >>)
PlanNoPut == JObj(<< <<"Complete", JStr(CompletePath)>> >>)
PlanNoComplete == JObj(<< <<"PUT", JStr(PutUrl)>> >>)
PlanPutNotString == JObj(<< <<"Complete", JStr(CompletePath)>>, <<"PUT", JNum(1)>> >>)
PlanCompleteNotString == JObj(<< <<"Complete", JNum(1)>>, <<"PUT", JStr(PutUrl)>> >>)
Plans ==
    { PlanPut, PlanBlock(0), PlanBlock(2), PlanAws, PlanBlockAws, PlanAwsNoHost,
      PlanAwsNoKey, PlanNoPut, PlanNoComplete, PlanPutNotString, PlanCompleteNotString }

\* the readers: of known length, of unknown length, and one whose reads fail
KnownLens ==
    { Bytes(0), Bytes(3), Bytes(4), Size(64, 0), Size(64, 1), Size(5 * 1024, 0),
      Size(65, 0), Size(5 * 1024, 1), Size(59999, MiB - 1), Size(60000, 0),
      Size(5 * 1024 * 1024, 0), Size(5 * 1024 * 1024, 1) }
UnknownLens == { Bytes(0), Bytes(3), Size(1024, 0), Size(1024, 1), Size(2048, 0) }
Readers ==
    { [len |-> l, seekable |-> TRUE, broken |-> FALSE] : l \in KnownLens }
        \cup { [len |-> l, seekable |-> FALSE, broken |-> FALSE] : l \in UnknownLens }
        \cup { [len |-> Bytes(3), seekable |-> TRUE, broken |-> TRUE] }
\* the values of the public field parallel_uploads: its default, 1 and 0
ParallelUploads == {0, 1, DefaultParallelUploads}
\* the builds: with or without overflow checks, which only parallel_uploads = 0 tells
\* apart
Builds == {[parallel_uploads |-> n, overflow_checks |-> c] :
              n \in ParallelUploads, c \in BOOLEAN} \
          {[parallel_uploads |-> n, overflow_checks |-> TRUE] : n \in ParallelUploads \ {0}}
UploadParams == JObj(<< <<"filename", JStr("a.txt")>> >>)
\* params in which the caller has set a size: a number that is not the length of
\* any reader, and a string
UploadParamsSized(size) == JObj(<< <<"filename", JStr("a.txt")>>, <<"size", size>> >>)
CallerParams == {UploadParams, UploadParamsSized(JNum(7)), UploadParamsSized(JStr("big"))}
\* where the caller has left the reader: at its start or, if it can seek, at its end
StartOffsets(reader) == {Bytes(0)} \cup (IF reader.seekable THEN {reader.len} ELSE {})

\* what the API answers to the calls of an upload
PlanAnswers == { Http(200, Some("req-1"), Envelope(<< <<"data", p>>, <<"result", JStr("success")>> >>)) : p \in Plans }
AuthData == JObj(<< <<"authorization", JStr("AWS4-HMAC-SHA256 Credential=AKIA, Signature=5d67")>> >>)
ApiAnswers(role) ==
    CASE role = "negotiate" ->
            PlanAnswers \cup {Http(200, Some("req-1"), EnvSuccess), Http(403, None, EnvError),
                              TransportFailure}
      [] role = "sign" ->
            { Http(200, Some("req-1"), Envelope(<< <<"data", AuthData>>, <<"result", JStr("success")>> >>)),
              Http(200, Some("req-1"), EnvSuccessNoData), Http(403, None, EnvError) }
      [] role = "complete" ->
            {Http(200, Some("req-1"), EnvSuccess), Http(403, None, EnvError), TransportFailure}

\* what the upload servers answer: [delivered, status, etag, body], the body being the
\* elements of the XML document, if any
Answer(status, etag, body) ==
    [delivered |-> TRUE, status |-> status, etag |-> etag, body |-> body]
NoAnswer == [delivered |-> FALSE, status |-> 0, etag |-> None, body |-> JObj(<<>>)]
InitiateResult ==
    JObj(<< <<"Bucket", JStr("bucket-1")>>, <<"Key", JStr("dir/file.bin")>>,
            <<"UploadId", JStr("upl-1")>> >>)
PutAnswers == {Answer(200, None, JObj(<<>>)), Answer(500, None, JObj(<<>>)), NoAnswer}
\* the ETag S3 gives a part: a digest of its body
ETagOf(body) == "\"md5-" \o BodyHash(body) \o "\""
\* what S3 may answer to the request it got
S3Answers(request) ==
    { Answer(200, Some(ETagOf(request.body)), InitiateResult),
      Answer(200, None, JObj(<<>>)), Answer(403, None, JObj(<<>>)), NoAnswer }

InitUpload ==
    /\ \E r \in Readers :
         up \in { [pc |-> "start", path |-> "Blob/Upload", method |-> "POST",
                   params |-> ps, reader |-> r, mime |-> "text/plain",
                   progress |-> p, parallel_uploads |-> b.parallel_uploads,
                   overflow_checks |-> b.overflow_checks, file_size |-> None,
                   start |-> start, pos |-> start, info |-> <<>>, strategy |-> "",
                   count |-> 0, calls |-> <<>>,
                   part_no |-> 0, copied |-> Bytes(0), pending |-> None] :
                   ps \in CallerParams, p \in BOOLEAN, b \in Builds,
                   start \in StartOffsets(r) }
    /\ events = <<>>
    /\ upResult = None
    /\ ctx = UploadContext
    /\ call = None
    /\ stack = <<>>
    /\ wire = <<>>
    /\ answers = <<>>
    /\ result = None
    /\ refreshed = None
    /\ sigIn = None
    /\ sigOut = <<>>
    /\ NwgIdle
    /\ LibIdle

\* the step of the upload that leaves o
UploadStep(o) ==
    /\ o.up.part_no <= MaxParts
    /\ up' = o.up
    /\ events' = o.events
    /\ upResult' = o.result
    /\ UNCHANGED <<restVars, sigVars, nwgVars, libVars>>

\* the events once the answer resp has arrived
Heard(resp) == Append(events, [kind |-> "answer", resp |-> resp])

\* the caller calls upload()
UploadCalled == up.pc = "start" /\ UploadStep(upload(up))
\* the answer to the negotiation call arrives
NegotiationAnswered(resp) == up.pc = "negotiate" /\ UploadStep(Negotiated(up, Heard(resp), resp))
\* the answer to the PUT of put_upload arrives
PutAnswered(resp) == up.pc = "put" /\ UploadStep(PutResponded(up, Heard(resp), resp))
\* the answer to the PUT of a part arrives
PartAnswered(resp) == up.pc = "part" /\ UploadStep(PartResponded(up, Heard(resp), resp))
\* the answer to a signV4 call arrives
SignAnswered(resp) == up.pc = "sign" /\ UploadStep(Signed(up, Heard(resp), resp))
\* the answer to an S3 request arrives
S3Answered ==
    /\ up.pc = "s3"
    /\ \E resp \in S3Answers(Last(events)) :
         UploadStep(S3Responded(up, Heard(resp), resp))
\* the answer to the Complete call arrives
CompleteAnswered(resp) == up.pc = "complete" /\ UploadStep(Completed(up, Heard(resp), resp))

NextUpload ==
    \/ UploadCalled
    \/ \E resp \in ApiAnswers("negotiate") : NegotiationAnswered(resp)
    \/ \E resp \in PutAnswers : PutAnswered(resp)
    \/ \E resp \in PutAnswers : PartAnswered(resp)
    \/ \E resp \in ApiAnswers("sign") : SignAnswered(resp)
    \/ S3Answered
    \/ \E resp \in ApiAnswers("complete") : CompleteAnswered(resp)

SpecUpload == InitUpload /\ [][NextUpload]_vars

\* SpecUpload when every request gets a response, and the caller does call upload
SpecUploadFair == SpecUpload /\ WF_vars(NextUpload)

(***************************************************************************)
(* SpecNwg: threads that share one NumeralWaitGroup.  add runs under the   *)
(* mutex from its first line to notify_all; wait takes the mutex, and      *)
(* cvar.wait gives it up while the thread sleeps and takes it again when   *)
(* the thread wakes, on a notification or spuriously.                      *)
(***************************************************************************)
NwgThreads == {1, 2}
\* the arguments the threads pass to add and to wait
NwgDeltas == {5, -2}
NwgMins == {0, 3}
\* a thread is [pc, min, log]: "ready", or inside wait(min) and "waiting" in cvar.wait
\* or "woken" from it; log holds the calls that returned to it
NwgReturn(op, arg, slept) == [op |-> op, arg |-> arg, slept |-> slept]
NwgCalls ==
    LET Pending(t) == IF threads[t].pc = "ready" THEN 0 ELSE 1
        Made(t) == Len(threads[t].log) + Pending(t)
    IN  Made(1) + Made(2)
\* add(delta) by thread t: the count changes, and if delta < 0 notify_all wakes
\* every thread that sleeps in cvar.wait
NwgAdded(t, op, delta) ==
    [u \in NwgThreads |->
        IF u = t THEN [threads[u] EXCEPT !.log = Append(@, NwgReturn(op, delta, FALSE))]
        ELSE IF NwgNotifies(delta) /\ threads[u].pc = "waiting"
        THEN [threads[u] EXCEPT !.pc = "woken"]
        ELSE threads[u]]
\* the while loop of wait, entered by thread t with the mutex held: it sleeps, or
\* wait returns
NwgChecked(t, min, slept) ==
    IF NwgMustWait(nwg, min)
    THEN [threads EXCEPT ![t].pc = "waiting", ![t].min = min]
    ELSE [threads EXCEPT ![t].pc = "ready",
                         ![t].log = Append(@, NwgReturn("wait", min, slept))]

InitNwg ==
    /\ nwg = 0
    /\ threads = [t \in NwgThreads |-> [pc |-> "ready", min |-> 0, log |-> <<>>]]
    /\ ctx = NoAuthContext
    /\ call = None
    /\ stack = <<>>
    /\ wire = <<>>
    /\ answers = <<>>
    /\ result = None
    /\ refreshed = None
    /\ sigIn = None
    /\ sigOut = <<>>
    /\ UploadIdle
    /\ LibIdle

\* thread t calls add(delta)
NwgAddCall(t, delta) ==
    /\ threads[t].pc = "ready" /\ NwgCalls < MaxNwgCalls
    /\ nwg' = NwgAdd(nwg, delta)
    /\ threads' = NwgAdded(t, "add", delta)
    /\ UNCHANGED <<restVars, sigVars, upVars, libVars>>
\* thread t calls done(): self.add(-1)
NwgDoneCall(t) ==
    /\ threads[t].pc = "ready" /\ NwgCalls < MaxNwgCalls
    /\ nwg' = NwgAdd(nwg, -1)
    /\ threads' = NwgAdded(t, "done", -1)
    /\ UNCHANGED <<restVars, sigVars, upVars, libVars>>
\* thread t calls wait(min)
NwgWaitCall(t, min) ==
    /\ threads[t].pc = "ready" /\ NwgCalls < MaxNwgCalls
    /\ threads' = NwgChecked(t, min, FALSE)
    /\ UNCHANGED <<nwg, restVars, sigVars, upVars, libVars>>
\* thread t, notified, has the mutex again and goes round the loop of wait
NwgWakeUp(t) ==
    /\ threads[t].pc = "woken"
    /\ threads' = NwgChecked(t, threads[t].min, TRUE)
    /\ UNCHANGED <<nwg, restVars, sigVars, upVars, libVars>>
\* cvar.wait of thread t returns with no notification
NwgSpuriousWakeUp(t) ==
    /\ threads[t].pc = "waiting"
    /\ threads' = [threads EXCEPT ![t].pc = "woken"]
    /\ UNCHANGED <<nwg, restVars, sigVars, upVars, libVars>>

NextNwg ==
    \E t \in NwgThreads :
        \/ \E delta \in NwgDeltas : NwgAddCall(t, delta)
        \/ NwgDoneCall(t)
        \/ \E min \in NwgMins : NwgWaitCall(t, min)
        \/ NwgWakeUp(t)
        \/ NwgSpuriousWakeUp(t)

SpecNwg == InitNwg /\ [][NextNwg]_vars

\* SpecNwg under fair scheduling: a thread that cvar.wait has woken gets the mutex
\* and goes round its loop
SpecNwgFair == SpecNwg /\ \A t \in NwgThreads : WF_vars(NwgWakeUp(t))

(***************************************************************************)
(* SpecLib: one call of Response::get, Response::get_string, the envelope  *)
(* round trip, Response::full_raw, the Time round trip or a helper of      *)
(* RestError, on a value drawn in Init.                                    *)
(***************************************************************************)
\* the data trees of the lookups
Tree ==
    JObj(<< <<"list", JArr(<< JObj(<< <<"id", JNum(7)>> >>), JStr("x") >>)>>,
            <<"n", JNum(1)>>,
            <<"user", JObj(<< <<"0", JStr("zero")>>, <<"name", JStr("test")>> >>)>> >>)
TopList == JArr(<< JStr("a"), JArr(<< JNum(5) >>) >>)
Scalar == JStr("plain")
GetEnvelopes ==
    { JObj(<< <<"result", JStr("success")>> >>),
      JObj(<< <<"data", JNull>>, <<"result", JStr("success")>> >>) }
    \cup { JObj(<< <<"data", d>>, <<"result", JStr("success")>> >>) :
           d \in {Tree, TopList, Scalar} }
GetPaths ==
    { "", "/", "//", "user", "user/name", "/user//name/", "user/0", "user/missing",
      "user/name/x", "list", "list/0", "list/0/id", "list/1", "list/2", "list/-1",
      "list/-0", "list/x", "list/+1", "list/01", "list/1.0", "list/+",
      "list/99999999999999999999", "n", "n/0", "0", "1/0", "1/0/0", "2" }
GetInputs ==
    { [op |-> op, response |-> ResponseFromStr(e).v, path |-> p] :
      op \in {"get", "get_string"}, e \in GetEnvelopes, p \in GetPaths }

\* the envelopes of the round trips: an object with result, the optional fields
\* of present with a value, those of nulls with null and, when extras is set, a
\* request_id and a member the struct does not name
OptionalFields ==
    { "access", "code", "data", "error", "exception", "extra", "job", "paging",
      "redirect_code", "redirect_url", "time", "token" }
EnvelopeKeys ==
    << "access", "code", "data", "error", "exception", "extra", "job", "paging",
       "redirect_code", "redirect_url", "request_id", "result", "time", "token",
       "trace" >>
SampleValue(key) ==
    CASE key = "access" -> JObj(<< <<"user", JStr("rw")>> >>)
      [] key = "code" -> JNum(404)
      [] key = "data" -> Tree
      [] key = "error" -> JStr("not found")
      [] key = "exception" -> JStr("Exception\\Redirect")
      [] key = "extra" -> JStr("token_expired")
      [] key = "job" -> JStr("job-1")
      [] key = "paging" -> JObj(<< <<"count", JNum(3)>>, <<"page_no", JNum(1)>> >>)
      [] key = "redirect_code" -> JNum(302)
      [] key = "redirect_url" -> JStr("https://example.com/")
      [] key = "request_id" -> JStr("req-in")
      [] key = "result" -> JStr("redirect")
      [] key = "time" -> JNum(12)
      [] key = "token" -> JStr("invalid_request_token")
      [] key = "trace" -> JArr(<< JNum(1) >>)
EnvelopeObject(present, nulls, extras) ==
    LET Kept(key) ==
            \/ key = "result"
            \/ key \in present \cup nulls
            \/ extras /\ key \in {"request_id", "trace"}
        keys == SelectSeq(EnvelopeKeys, Kept)
    IN  JObj([i \in 1..Len(keys) |->
                 <<keys[i], IF keys[i] \in nulls THEN JNull ELSE SampleValue(keys[i])>>])
\* how many optional fields an envelope holds, when it does not hold them all
MaxPresent == 2
PresentSets ==
    {S \in SUBSET OptionalFields : Cardinality(S) <= MaxPresent} \cup {OptionalFields}
\* envelopes that are no Response: no result, or a field of another type
IllTypedEnvelopes ==
    { JObj(<< <<"data", Tree>> >>),
      JObj(<< <<"result", JNum(1)>> >>),
      JObj(<< <<"code", JStr("404")>>, <<"result", JStr("error")>> >>),
      JObj(<< <<"error", JNum(404)>>, <<"result", JStr("error")>> >>),
      JArr(<< JStr("success") >>) }
EnvelopeInputs ==
    { [op |-> op, json |-> e, request_id |-> rid] :
      op \in {"to_string", "full_raw"},
      e \in {EnvelopeObject(S, N \ S, x) :
                 S \in PresentSets, N \in {{}, OptionalFields}, x \in BOOLEAN}
            \cup IllTypedEnvelopes,
      rid \in {None, Some("req-9")} }

\* the times of the round trips; FarFuture is 9 * 10^12, a second of the year 287168
FarFuture == JNum64(Size(8583068, 888832))
TimeUnix == {JNum(0), JNum(1), JNum(-1), JNum(1597242491), JNum(-1597242491),
             JNum(2147483647), FarFuture}
TimeUs == {0, 1, 747497, 999999}
\* the other members of the object: none, those of an earlier serialization and
\* one TimeInternal does not name, or a tz that is no string
TimeObject(unix_, us, others) ==
    CASE others = "none" -> JObj(<< <<"unix", unix_>>, <<"us", JNum(us)>> >>)
      [] others = "stale" ->
            JObj(<< <<"full", JStr("1")>>, <<"iso", JStr("2001-01-01 00:00:00")>>,
                    <<"tz", JStr("CET")>>, <<"unix", unix_>>, <<"unixms", JStr("2")>>,
                    <<"us", JNum(us)>>, <<"zone", JNum(1)>> >>)
      [] others = "tz number" ->
            JObj(<< <<"tz", JNum(1)>>, <<"unix", unix_>>, <<"us", JNum(us)>> >>)
TimeInputs ==
    { [op |-> "time", json |-> TimeObject(u, us, o)] :
      u \in TimeUnix, us \in TimeUs, o \in {"none", "stale", "tz number"} }

\* the errors of the helpers, one or more of every kind
ErrorEnvelope(code) ==
    IF IsSome(code)
    THEN JObj(<< <<"code", JNum(Unwrap(code))>>, <<"error", JStr("refused")>>,
                 <<"result", JStr("error")>> >>)
    ELSE JObj(<< <<"error", JStr("refused")>>, <<"result", JStr("error")>> >>)
Errors ==
    { from_response(ResponseFromStr(ErrorEnvelope(code)).v) :
      code \in {None, Some(403), Some(404), Some(500), Some(0), Some(-403)} }
    \cup { RestErrorHttp(status, "body") : status \in {200, 403, 404, 500, 65535} }
    \cup { [kind |-> k] : k \in {"LoginRequired", "NoClientId", "NoRefreshToken"} }
    \cup { [kind |-> k, msg |-> m] :
           k \in {"RequestBuild", "Json", "Reqwest", "UrlParse", "Base64Decode", "Io",
                  "Other"},
           m \in {"403", "404"} }
ErrorInputs ==
    { [op |-> op, error |-> e] :
      op \in {"is_permission_denied", "is_not_found", "status_code"}, e \in Errors }

InitLib ==
    /\ libIn \in {Some(i) : i \in GetInputs \cup EnvelopeInputs \cup TimeInputs
                                  \cup ErrorInputs}
    /\ libOut = None
    /\ ctx = NoAuthContext
    /\ call = None
    /\ stack = <<>>
    /\ wire = <<>>
    /\ answers = <<>>
    /\ result = None
    /\ refreshed = None
    /\ sigIn = None
    /\ sigOut = <<>>
    /\ UploadIdle
    /\ NwgIdle

\* the call of libIn, of the operation op, returns out
LibReturns(op, out) ==
    /\ IsSome(libIn)
    /\ Unwrap(libIn).op = op
    /\ libOut = None
    /\ libOut' = Some(out)
    /\ UNCHANGED <<libIn, restVars, sigVars, upVars, nwgVars>>

\* response.get(path)
GetCalled ==
    IsSome(libIn) /\ LibReturns("get", get(Unwrap(libIn).response, Unwrap(libIn).path))

\* response.get_string(path)
GetStringCalled ==
    IsSome(libIn)
    /\ LibReturns("get_string", get_string(Unwrap(libIn).response, Unwrap(libIn).path))

\* the Response read from the text of libIn.json, with the request_id do_request
\* attaches to it (rest.rs: response.request_id = request_id)
Attached(in) ==
    LET read == ResponseFromStr(in.json)
    IN  IF read.ok THEN Ok([read.v EXCEPT !.request_id = in.request_id]) ELSE read

\* serde_json::from_str::<Response>, then serde_json::to_string of the Response
ToStringCalled ==
    /\ IsSome(libIn)
    /\ LET response == Attached(Unwrap(libIn))
       IN  LibReturns("to_string",
                      IF response.ok THEN Ok(ResponseToString(response.v)) ELSE response)

\* serde_json::from_str::<Response>, then response.full_raw()
FullRawCalled ==
    /\ IsSome(libIn)
    /\ LET response == Attached(Unwrap(libIn))
       IN  LibReturns("full_raw",
                      IF response.ok THEN Ok(full_raw(response.v)) ELSE response)

\* serde_json::from_str::<Time>, then serde_json::to_string of the Time
TimeRoundTrip ==
    /\ IsSome(libIn)
    /\ LET time == TimeFromStr(Unwrap(libIn).json)
       IN  LibReturns("time", IF time.ok THEN Ok(TimeToString(time.v)) ELSE time)

\* error.is_permission_denied()
PermissionDeniedCalled ==
    IsSome(libIn)
    /\ LibReturns("is_permission_denied", is_permission_denied(Unwrap(libIn).error))

\* error.is_not_found()
NotFoundCalled ==
    IsSome(libIn) /\ LibReturns("is_not_found", is_not_found(Unwrap(libIn).error))

\* error.status_code()
StatusCodeCalled ==
    IsSome(libIn) /\ LibReturns("status_code", status_code(Unwrap(libIn).error))

NextLib ==
    \/ GetCalled
    \/ GetStringCalled
    \/ ToStringCalled
    \/ FullRawCalled
    \/ TimeRoundTrip
    \/ PermissionDeniedCalled
    \/ NotFoundCalled
    \/ StatusCodeCalled

SpecLib == InitLib /\ [][NextLib]_vars

(***************************************************************************)
(* SpecTags: the ETag store of UploadInfo.  Either the callers of set_tag  *)
(* run, in any order the mutex gives them, or an upload runs and its       *)
(* parts store their ETags as aws_upload_part gets their responses.        *)
(***************************************************************************)
\* the callers of set_tag on one UploadInfo: the parts 1..MaxTagParts, each with the
\* ETag of its own response, any of them being absent; the vector starts empty
\* (Vec::new() in prepare)
MaxTagParts == 4
TagCall(n) == [part_no |-> n, tag |-> "etag-" \o ToString(n)]
SetTagInputs ==
    { [op |-> "set_tag", calls |-> {TagCall(n) : n \in parts}] :
      parts \in (SUBSET (1..MaxTagParts)) \ {{}} }
\* the uploads: 65 MiB of known size and 1024 MiB + 1 byte of unknown size
TagReaders ==
    { [len |-> Size(65, 0), seekable |-> TRUE, broken |-> FALSE],
      [len |-> Size(1024, 1), seekable |-> FALSE, broken |-> FALSE] }
TagUploads ==
    { [pc |-> "start", path |-> "Blob/Upload", method |-> "POST",
       params |-> UploadParams, reader |-> r, mime |-> "text/plain",
       progress |-> TRUE, parallel_uploads |-> DefaultParallelUploads,
       overflow_checks |-> FALSE, file_size |-> None,
       start |-> Bytes(0), pos |-> Bytes(0), info |-> <<>>, strategy |-> "",
       count |-> 0, calls |-> <<>>,
       part_no |-> 0, copied |-> Bytes(0), pending |-> None] :
       r \in TagReaders }

InitTags ==
    /\ \/ libIn \in {Some(i) : i \in SetTagInputs} /\ UploadIdle
       \/ libIn = None /\ up \in TagUploads /\ events = <<>> /\ upResult = None
    /\ libOut = None
    /\ ctx = UploadContext
    /\ call = None
    /\ stack = <<>>
    /\ wire = <<>>
    /\ answers = <<>>
    /\ result = None
    /\ refreshed = None
    /\ sigIn = None
    /\ sigOut = <<>>
    /\ NwgIdle

\* one of the callers of set_tag gets the mutex and runs set_tag to its end;
\* libOut holds the vector, the vector before this call, and the calls made so far
SetTagCalled ==
    /\ IsSome(libIn)
    /\ Unwrap(libIn).op = "set_tag"
    /\ LET now == IF libOut = None THEN [tags |-> <<>>, before |-> <<>>, made |-> <<>>]
                  ELSE Unwrap(libOut)
       IN  \E c \in Unwrap(libIn).calls :
               /\ \A k \in 1..Len(now.made) : now.made[k] # c
               /\ libOut' = Some([tags |-> set_tag(now.tags, c.part_no, c.tag),
                                  before |-> now.tags,
                                  made |-> Append(now.made, c)])
    /\ UNCHANGED <<libIn, restVars, sigVars, upVars, nwgVars>>

NextTags ==
    \/ SetTagCalled
    \/ up # None /\ NextUpload

SpecTags == InitTags /\ [][NextTags]_vars

(***************************************************************************)
(* Properties                                                              *)
(***************************************************************************)
\* the call has returned to the caller
Returned == call # None /\ stack = <<>>
\* the requests of the call itself (the first and the retries), by their index
EndpointRequests == {i \in 1..Len(wire) : wire[i].role \in {"main", "retry"}}
Decodes(resp) == resp.delivered /\ ResponseFromSlice(resp.body).ok
EnvelopeOf(resp) == ResponseFromSlice(resp.body).v
\* the envelope is the token-expired signal
ExpirySignal(env) ==
    env.token = Some("invalid_request_token") /\ env.extra = Some("token_expired")
ExpiredAnswer(resp) == Decodes(resp) /\ ExpirySignal(EnvelopeOf(resp))
\* the answer makes the refresh call succeed: an envelope do_request returns whose
\* data decodes as a Token
RefreshAnswer(resp) ==
    /\ Decodes(resp)
    /\ EnvelopeOf(resp).result \notin {"error", "redirect"}
    /\ ApplyToken(EnvelopeOf(resp)).ok
SuccessAnswer(resp) ==
    Decodes(resp) /\ EnvelopeOf(resp).result = "success" /\ ~ExpirySignal(EnvelopeOf(resp))
Refreshable(self) ==
    /\ IsSome(self.token)
    /\ Unwrap(self.token).client_id # ""
    /\ Unwrap(self.token).refresh_token # ""
SignatureKeys == {"_key", "_time", "_nonce", "_sign"}

\* C1: with a Token that has a client_id and a refresh_token, a server that answers
\* every request to the endpoint with the token-expired envelope and every refresh
\* with success sees the request at most twice, and after the second such answer the
\* call has returned a failure.
C1_RefreshSingleShot ==
    ( /\ Refreshable(ctx)
      /\ \A i \in 1..Len(answers) :
            IF wire[i].role = "refresh" THEN RefreshAnswer(answers[i])
            ELSE ExpiredAnswer(answers[i]) )
    => /\ Cardinality(EndpointRequests) <= 2
       /\ Len(answers) >= 3 => Returned /\ IsSome(result) /\ ~Unwrap(result).ok

\* the Token the refresh answered by resp yields for the Token old
RenewedFrom(old, resp) ==
    LET t == ApplyToken(EnvelopeOf(resp)).v
    IN  [old EXCEPT !.access_token = t.access_token, !.refresh_token = t.refresh_token,
                    !.expires_in = t.expires_in]
\* the first three requests are the request, the refresh and the replay of the
\* request with the same path, method and params
RefreshOrder ==
    /\ Len(wire) >= 3
    /\ wire[1].role = "main" /\ wire[2].role = "refresh" /\ wire[3].role = "retry"
    /\ wire[2].req.method = "POST"
    /\ wire[2].req.url = "https://www.atonline.com/_special/rest/OAuth2:token"
    /\ wire[2].req.body
         = "{\"client_id\":\"client-1\",\"grant_type\":\"refresh_token\",\"noraw\":\"true\",\"refresh_token\":\"refresh-1\"}"
    /\ wire[3].req.method = wire[1].req.method
    /\ wire[3].req.url = wire[1].req.url
    /\ wire[3].req.body = wire[1].req.body
    /\ ("_" \in DOMAIN wire[1].req.query) = ("_" \in DOMAIN wire[3].req.query)
    /\ "_" \in DOMAIN wire[1].req.query => wire[3].req.query["_"] = wire[1].req.query["_"]
\* the caller got one result, the envelope of the third answer
OneSuccess ==
    /\ Returned
    /\ Len(wire) = 3
    /\ result = Some(Ok([EnvelopeOf(answers[3]) EXCEPT !.request_id = answers[3].request_id]))
RefreshScenario ==
    /\ Refreshable(ctx)
    /\ Len(answers) >= 3
    /\ ExpiredAnswer(answers[1])
    /\ SuccessAnswer(answers[3])
BearerOf(req) ==
    IF "Authorization" \in DOMAIN req.headers THEN Some(req.headers["Authorization"]) ELSE None

\* C2 as stated: with a Token that has a client_id and a refresh_token, when the first
\* answer is the token-expired envelope and the retry is answered with success, the
\* requests were the request, POST OAuth2:token and the replay, the replay carries the
\* refreshed access token as bearer, and the caller gets the one success envelope.
C2_Original ==
    RefreshScenario =>
        /\ RefreshOrder
        /\ BearerOf(wire[3].req)
             = Some("Bearer " \o RenewedFrom(Unwrap(ctx.token), answers[2]).access_token)
        /\ OneSuccess

\* C2 amended: as C2, the replay carrying the refreshed access token as bearer when the
\* Context has no ApiKey; with an ApiKey the replay carries the signature parameters and
\* no Authorization header.
C2_RefreshScenario ==
    RefreshScenario =>
        /\ RefreshOrder
        /\ IF ctx.api_key = None
           THEN BearerOf(wire[3].req)
                  = Some("Bearer " \o RenewedFrom(Unwrap(ctx.token), answers[2]).access_token)
           ELSE /\ BearerOf(wire[3].req) = None
                /\ SignatureKeys \subseteq DOMAIN wire[3].req.query
        /\ OneSuccess
C2_Witness ==
    /\ RefreshScenario
    /\ ctx.api_key = None
    /\ Unwrap(call).path = "User:get"
    /\ BearerOf(wire[3].req) = Some("Bearer access-2")

\* C3: when a do_request call that renewed the token has returned, the Token of the
\* Context it was called on holds the renewed access_token, refresh_token and
\* expires_in.
C3_ContextTokenRenewed ==
    (Returned /\ IsSome(refreshed)) =>
        /\ IsSome(ctx.token)
        /\ Unwrap(ctx.token).access_token = Unwrap(refreshed).access_token
        /\ Unwrap(ctx.token).refresh_token = Unwrap(refreshed).refresh_token
        /\ Unwrap(ctx.token).expires_in = Unwrap(refreshed).expires_in

\* C4: an invocation with a Token that receives the token-expired envelope fails with
\* no-client-id when the Token's client_id is empty, and with no-refresh-token when
\* only its refresh_token is empty; no request follows the one it sent, so a call on a
\* Context with such a Token made exactly one HTTP request.
C4_RefreshPreconditions ==
    \A i \in 1..Len(answers) :
        ( /\ wire[i].role # "refresh"
          /\ IsSome(wire[i].self.token)
          /\ ExpiredAnswer(answers[i])
          /\ \/ Unwrap(wire[i].self.token).client_id = ""
             \/ Unwrap(wire[i].self.token).refresh_token = "" )
        => /\ Returned
           /\ Len(wire) = i /\ Len(answers) = i
           /\ wire[i].self = ctx => Len(wire) = 1
           /\ result = Some(Err([kind |->
                  IF Unwrap(wire[i].self.token).client_id = "" THEN "NoClientId"
                  ELSE "NoRefreshToken"]))
C4_Witness ==
    /\ Returned
    /\ IsSome(ctx.token)
    /\ Unwrap(ctx.token).client_id = "" /\ Unwrap(ctx.token).refresh_token = ""
    /\ Len(wire) = 1
    /\ result = Some(Err([kind |-> "NoClientId"]))

\* the answer that was the last to arrive, and the invocation that got it
LastAnswered == Len(answers)
\* the envelope an invocation decodes from resp, with the X-Request-Id header
Received(resp) == [EnvelopeOf(resp) EXCEPT !.request_id = resp.request_id]
\* the API error built from an envelope
ApiErrorOf(env) ==
    [kind |-> "Api",
     message |-> IF env.error = None THEN "unknown error" ELSE Unwrap(env.error),
     code |-> env.code,
     request_id |-> env.request_id,
     response |-> env]

\* C5: an invocation that decodes an envelope that is not the token-expired signal
\* returns login-required for a redirect with exception "Exception\Login", the API
\* error built from the envelope (message the error or "unknown error", code,
\* request_id) for any other redirect and for an error, and for success the envelope
\* with request_id set from the X-Request-Id header.
C5_ResultDispatch ==
    (LastAnswered >= 1 /\ Decodes(answers[LastAnswered])
        /\ ~ExpirySignal(EnvelopeOf(answers[LastAnswered]))) =>
        LET env == Received(answers[LastAnswered])
            role == wire[LastAnswered].role
        IN  /\ (env.result = "redirect" /\ env.exception = Some("Exception\\Login"))
                 => Returned /\ result = Some(Err([kind |-> "LoginRequired"]))
            /\ (env.result = "redirect" /\ env.exception # Some("Exception\\Login"))
                 => Returned /\ result = Some(Err(ApiErrorOf(env)))
            /\ env.result = "error"
                 => Returned /\ result = Some(Err(ApiErrorOf(env)))
            /\ (env.result = "success" /\ role # "refresh")
                 => Returned /\ result = Some(Ok(env))
C5_Witness ==
    /\ Returned
    /\ LastAnswered = 1
    /\ answers[1].body = EnvErrorBare
    /\ IsSome(result) /\ ~Unwrap(result).ok
    /\ Unwrap(result).v.kind = "Api"
    /\ Unwrap(result).v.message = "unknown error"
    /\ Unwrap(result).v.request_id = Some("req-1")
C5_WitnessLogin ==
    /\ Returned
    /\ answers # <<>> /\ Last(answers).body = EnvLogin
    /\ result = Some(Err([kind |-> "LoginRequired"]))

\* an answer whose body does not decode as an envelope
Undecoded(resp) == resp.delivered /\ ~ResponseFromSlice(resp.body).ok
\* no request was sent after the one that got the last answer
NothingSentAfter == Len(wire) = LastAnswered
CarriedBody(resp) ==
    IF "binary" \in DOMAIN resp.body
    THEN [text |-> Replacements(Len(resp.body.binary))]
    ELSE resp.body

ParamText(param) == IF param = JObj(<<>>) THEN "{}" ELSE "{\"a\":1}"
HasParamQuery(req) == "_" \in DOMAIN req.query

\* C7: GET, HEAD and OPTIONS carry the JSON text of the param in the query under "_"
\* and an empty body; PUT, POST and PATCH carry it as the body and no "_" in the
\* query; DELETE carries it in neither; with any other verb the call fails with
\* request-build and no request is sent.
C7_ParamPlacement ==
    IsSome(call) =>
        LET c == Unwrap(call)
            sent == {i \in 1..Len(wire) : wire[i].role # "refresh"}
        IN  /\ c.method \in {"GET", "HEAD", "OPTIONS", "PUT", "POST", "PATCH", "DELETE"}
                 => 1 \in sent
            /\ c.method \in {"GET", "HEAD", "OPTIONS"} =>
                 \A i \in sent : /\ HasParamQuery(wire[i].req)
                                 /\ wire[i].req.query["_"] = ParamText(c.param)
                                 /\ wire[i].req.body = ""
            /\ c.method \in {"PUT", "POST", "PATCH"} =>
                 \A i \in sent : /\ ~HasParamQuery(wire[i].req)
                                 /\ wire[i].req.body = ParamText(c.param)
            /\ c.method = "DELETE" =>
                 \A i \in sent : /\ ~HasParamQuery(wire[i].req)
                                 /\ wire[i].req.body = ""
            /\ c.method \notin {"GET", "HEAD", "OPTIONS", "PUT", "POST", "PATCH", "DELETE"} =>
                 /\ wire = <<>>
                 /\ Returned
                 /\ IsSome(result) /\ ~Unwrap(result).ok
                 /\ Unwrap(result).v.kind = "RequestBuild"
C7_Witness ==
    /\ IsSome(call)
    /\ Unwrap(call).method = "GET"
    /\ Len(wire) >= 1
    /\ wire[1].req.query["_"] = "{\"a\":1}"
    /\ wire[1].req.body = ""
C7_WitnessLowerCase ==
    /\ IsSome(call)
    /\ Unwrap(call).method = "get"
    /\ wire = <<>>
    /\ IsSome(result) /\ ~Unwrap(result).ok
    /\ Unwrap(result).v.kind = "RequestBuild"

HasBearer(req) == "Authorization" \in DOMAIN req.headers

\* C8: a request of a Context with an ApiKey carries _key, _time, _nonce and _sign and
\* no Authorization header, with or without a Token; a request of a Context with a
\* Token only carries Authorization: Bearer <access_token> and none of the signature
\* parameters; a request of a Context with neither carries neither.
C8_AuthExclusive ==
    \A i \in 1..Len(wire) :
        LET self == wire[i].self
            req == wire[i].req
        IN  IF self.api_key # None
            THEN /\ SignatureKeys \subseteq DOMAIN req.query
                 /\ req.query["_key"] = Unwrap(self.api_key).key_id
                 /\ ~HasBearer(req)
            ELSE IF self.token # None
            THEN /\ HasBearer(req)
                 /\ req.headers["Authorization"]
                      = "Bearer " \o Unwrap(self.token).access_token
                 /\ SignatureKeys \cap DOMAIN req.query = {}
            ELSE /\ ~HasBearer(req)
                 /\ SignatureKeys \cap DOMAIN req.query = {}
C8_Witness ==
    /\ Len(wire) >= 1
    /\ wire[1].self.api_key # None /\ wire[1].self.token # None
    /\ SignatureKeys \subseteq DOMAIN wire[1].req.query
    /\ ~HasBearer(wire[1].req)

\* the pairs of a query map other than "_sign"
PairsButSign(q) == {p \in Pairs(q) : p[1] # "_sign"}

\* C9: two calls of generate_signature with the same secret, method, path, query
\* pairs other than "_sign" and body return the same string, whatever the order in
\* which the map is iterated and whatever "_sign" entry the map has or lacks.
C9_SignatureDeterministic ==
    \A i, j \in 1..Len(sigOut) :
        ( /\ sigOut[i].in.api_key.secret = sigOut[j].in.api_key.secret
          /\ sigOut[i].in.method = sigOut[j].in.method
          /\ sigOut[i].in.path = sigOut[j].in.path
          /\ PairsButSign(sigOut[i].in.query_params) = PairsButSign(sigOut[j].in.query_params)
          /\ sigOut[i].in.body = sigOut[j].in.body )
        => sigOut[i].out = sigOut[j].out
C9_Witness ==
    /\ Len(sigOut) = 2
    /\ {"a", "b"} \subseteq DOMAIN sigOut[1].in.query_params
    /\ "_sign" \in DOMAIN sigOut[1].in.query_params
    /\ "_sign" \notin DOMAIN sigOut[2].in.query_params
    /\ \E k \in 1..2 : sigOut[1].iter[k] = "b" /\ sigOut[2].iter[k] # "b"
    /\ sigOut[1].out = sigOut[2].out

\* C10: a signed request carries, apart from _sign, exactly the pairs that were
\* signed, among them _key, _time, _nonce and the business parameter; the body signed
\* is the body sent, empty for GET, HEAD, OPTIONS and DELETE; and _sign is the
\* signature of what was signed.
C10_SignatureCoversRequest ==
    \A i \in 1..Len(wire) :
        LET self == wire[i].self
            req == wire[i].req
        IN  /\ IsSome(self.api_key) = IsSome(wire[i].signed)
            /\ IsSome(wire[i].signed) =>
                 LET signed == Unwrap(wire[i].signed)
                 IN  /\ PairsButSign(req.query) = Pairs(signed.query_params)
                     /\ {"_key", "_time", "_nonce"} \subseteq DOMAIN signed.query_params
                     /\ req.method \in {"GET", "HEAD", "OPTIONS"}
                          => <<"_", ParamText(Unwrap(call).param)>> \in Pairs(signed.query_params)
                     /\ signed.body = req.body
                     /\ req.method \in {"GET", "HEAD", "OPTIONS", "DELETE"} => signed.body = ""
                     /\ signed.method = req.method
                     /\ "_sign" \in DOMAIN req.query
                     /\ \E iter \in IterOrders(DOMAIN signed.query_params) :
                          req.query["_sign"]
                            = generate_signature(Unwrap(self.api_key), signed.method,
                                                 signed.path, signed.query_params,
                                                 signed.body, iter)
C10_Witness ==
    /\ Len(wire) >= 1
    /\ IsSome(wire[1].signed)
    /\ wire[1].req.method = "GET"
    /\ DOMAIN wire[1].req.query = {"_", "_key", "_time", "_nonce", "_sign"}
    /\ wire[1].req.query["_"] = "{\"a\":1}"
    /\ wire[1].req.query["_time"] = "1700000001"
C10_WitnessBody ==
    /\ Len(wire) >= 1
    /\ IsSome(wire[1].signed)
    /\ wire[1].req.method = "POST"
    /\ Unwrap(wire[1].signed).body = "{\"a\":1}"

(***************************************************************************)
(* Properties of upload()                                                  *)
(***************************************************************************)
\* the positions in the events of the requests and reports of each kind
EventsOf(kind) == {i \in 1..Len(events) : events[i].kind = kind}
ApiCalls(role) == {i \in EventsOf("api") : events[i].role = role}
SinglePuts == {i \in EventsOf("put") : events[i].part = 0}
PartPuts == {i \in EventsOf("put") : events[i].part > 0}
S3Requests(op) == {i \in EventsOf("s3") : events[i].op = op}
\* the plan the negotiation returned, once a strategy runs
PlanOf == Unwrap(EnvelopeOf(events[2].resp).data)
UploadReturned == up # None /\ up.pc = "done"
UploadOk == UploadReturned /\ Unwrap(upResult).ok
UploadErr == UploadReturned /\ ~Unwrap(upResult).ok

\* the strategy section 5 of the specification gives a plan and a reader
StringField(obj, key) == JHas(obj, key) /\ IsStr(JGet(obj, key))
AllAwsFields(plan) ==
    /\ StringField(plan, "Cloud_Aws_Bucket_Upload__")
    /\ StringField(plan, "Key")
    /\ JHas(plan, "Bucket_Endpoint")
    /\ \A f \in {"Region", "Name", "Host"} : StringField(JGet(plan, "Bucket_Endpoint"), f)
ExpectedStrategy(plan, reader) ==
    IF JHas(plan, "Blocksize") THEN "part_upload"
    ELSE IF AllAwsFields(plan) /\ (~reader.seekable \/ SzLess(Size(64, 0), reader.len))
    THEN "aws_upload"
    ELSE "put_upload"
\* the requests to the upload servers are those of the strategy s only
OnlyStrategy(s) ==
    /\ s # "put_upload" => SinglePuts = {}
    /\ s # "part_upload" => PartPuts = {}
    /\ s # "aws_upload" => EventsOf("s3") = {} /\ ApiCalls("sign") = {}

\* C11: the strategy that runs is the one the plan and the size select (block when the
\* plan has Blocksize, else S3 when all AWS fields are there and the size is unknown or
\* above 64 MiB, else single PUT), and only the requests of that one strategy are sent.
C11_StrategySelection ==
    up # None =>
        IF up.strategy = "" THEN OnlyStrategy("")
        ELSE /\ up.strategy = ExpectedStrategy(PlanOf, up.reader)
             /\ OnlyStrategy(up.strategy)
\* an S3 upload of a reader one byte above 64 MiB has sent a part
C11_Witness ==
    /\ up # None /\ up.strategy = "aws_upload"
    /\ up.reader.seekable /\ up.reader.len = Size(64, 1)
    /\ S3Requests("part") # {}
\* a plan with Blocksize and the AWS fields runs the block strategy
C11_WitnessBlockAws ==
    /\ up # None /\ up.strategy = "part_upload"
    /\ PartPuts # {} /\ AllAwsFields(PlanOf)
\* an AWS plan with exactly 64 MiB runs the single PUT
C11_WitnessAtThreshold ==
    /\ up # None /\ up.strategy = "put_upload"
    /\ SinglePuts # {} /\ AllAwsFields(PlanOf) /\ up.reader.len = Size(64, 0)

\* the answer to the negotiation call, and what do_request makes of it
NegotiationHeard == Len(events) >= 2
NegotiationResult == Responded(UploadContext, events[2].resp).r
\* the call failed, or its data is no object
NegotiationFailed ==
    \/ ~NegotiationResult.ok
    \/ ~(IsSome(NegotiationResult.v.data) /\ IsObj(Unwrap(NegotiationResult.v.data)))
\* the plan came, without a string PUT or without a string Complete
PlanLacksField ==
    /\ ~NegotiationFailed
    /\ ~StringField(PlanOf, "PUT") \/ ~StringField(PlanOf, "Complete")

\* C12: when the negotiation call fails, or its plan lacks a string PUT or a string
\* Complete, upload returns an error (of kind other for the missing fields; the error of
\* the call when the call failed) and the events end with the negotiation answer: no
\* progress report, no PUT, no S3 request, no signV4 call and no Complete call.
C12_NegotiationFailure ==
    (up # None /\ NegotiationHeard /\ (NegotiationFailed \/ PlanLacksField)) =>
        /\ UploadErr
        /\ Len(events) = 2
        /\ ~NegotiationResult.ok => Unwrap(upResult).v = NegotiationResult.v
        /\ PlanLacksField => Unwrap(upResult).v.kind = "Other"
\* a plan without Complete, for an upload with a progress callback
C12_Witness ==
    /\ up # None /\ up.progress /\ NegotiationHeard /\ PlanLacksField
    /\ PlanOf = PlanNoComplete
    /\ UploadErr
\* the negotiation call itself failed
C12_WitnessCallFailed ==
    /\ up # None /\ up.progress /\ NegotiationHeard /\ ~NegotiationResult.ok
    /\ UploadErr

\* the deltas reported so far, in order, and their sum
RECURSIVE DeltasOf(_)
DeltasOf(ev) ==
    IF ev = <<>> THEN <<>>
    ELSE IF ev[1].kind = "progress" THEN <<ev[1].delta>> \o DeltasOf(Tail(ev))
    ELSE DeltasOf(Tail(ev))
RECURSIVE SzSum(_)
SzSum(sizes) == IF sizes = <<>> THEN Bytes(0) ELSE SzAdd(sizes[1], SzSum(Tail(sizes)))
Deltas == DeltasOf(events)
\* the answer that follows the request at position i, if it has come
AnswerCame(i) == Len(events) > i /\ events[i + 1].kind = "answer"
AnswerTo(i) == events[i + 1].resp
Accepted(resp) == resp.delivered /\ resp.status \in 200..299

\* C13: in the single PUT strategy the one PUT carries the whole reader (L bytes,
\* L <= 5 GiB); once it is answered 2xx the deltas sum to L and Complete is called
\* exactly once, after that answer; once it fails, upload has returned an error (HTTP
\* with the status, for a non-2xx answer), Complete is not called and the deltas are the
\* initial 0 alone.
C13_SinglePutComplete ==
    (up # None /\ up.strategy = "put_upload" /\ SinglePuts # {}) =>
        LET i == CHOOSE j \in SinglePuts : TRUE
        IN  /\ SinglePuts = {i}
            /\ up.reader.seekable /\ ~SzLess(Size(5 * 1024, 0), up.reader.len)
            /\ events[i].body = ReaderBody(Bytes(0), up.reader.len)
            /\ IF AnswerCame(i) /\ Accepted(AnswerTo(i))
               THEN /\ up.progress => SzSum(Deltas) = up.reader.len
                    /\ Cardinality(ApiCalls("complete")) = 1
                    /\ \A c \in ApiCalls("complete") : c > i + 1
               ELSE /\ ApiCalls("complete") = {}
                    /\ up.progress => Deltas = <<Bytes(0)>>
                    /\ AnswerCame(i) =>
                         /\ UploadErr
                         /\ AnswerTo(i).delivered =>
                              /\ Unwrap(upResult).v.kind = "Http"
                              /\ Unwrap(upResult).v.status = AnswerTo(i).status
\* a reader of exactly 5 GiB went through the single PUT and Complete was called
C13_Witness ==
    /\ up # None /\ up.strategy = "put_upload" /\ up.progress
    /\ up.reader.len = Size(5 * 1024, 0)
    /\ ApiCalls("complete") # {}
    /\ Deltas = <<Bytes(0), Size(5 * 1024, 0)>>
\* the PUT was answered 500
C13_WitnessRefused ==
    /\ up # None /\ up.strategy = "put_upload" /\ up.progress
    /\ \E i \in SinglePuts : AnswerCame(i) /\ AnswerTo(i).delivered /\ AnswerTo(i).status = 500
    /\ UploadErr

\* the size upload() finds for the reader is unknown, or above 5 GiB
SizeUnknown == ~up.reader.seekable
AbovePutLimit == up.reader.seekable /\ SzLess(Size(5 * 1024, 0), up.reader.len)

\* C14: when the single PUT strategy is selected and the size is unknown or above
\* 5 GiB, upload has failed with an error of kind other, and neither the PUT nor the
\* Complete call is sent.
C14_SinglePutPreconditions ==
    (up # None /\ up.strategy = "put_upload" /\ (SizeUnknown \/ AbovePutLimit)) =>
        /\ UploadErr
        /\ Unwrap(upResult).v.kind = "Other"
        /\ EventsOf("put") = {}
        /\ ApiCalls("complete") = {}
\* a reader that cannot seek met a plan for the single PUT
C14_Witness ==
    /\ up # None /\ up.strategy = "put_upload" /\ SizeUnknown
    /\ PlanOf = PlanPut /\ UploadErr
\* a reader of 5 GiB and one byte met a plan for the single PUT
C14_WitnessAboveLimit ==
    /\ up # None /\ up.strategy = "put_upload" /\ AbovePutLimit
    /\ up.reader.len = Size(5 * 1024, 1) /\ UploadErr

\* the PUTs of the parts of the block strategy, in the order they were sent
IsPartPut(e) == e.kind = "put" /\ e.part > 0
PartRequests == SelectSeq(events, IsPartPut)
\* the Blocksize of the plan, in bytes
PlanBlocksize == Bytes(JGet(PlanOf, "Blocksize").num)

\* C15: in the block strategy the k-th part sent has number k; it starts at
\* (k-1)*blocksize, above the start of the part before it, and holds the bytes of the
\* reader from there; its Content-Range header is "bytes start-end/*" with
\* end - start + 1 the number of bytes in its body.
C15_BlockOrder ==
    (up # None /\ up.strategy = "part_upload") =>
        \A k \in 1..Len(PartRequests) :
            LET part == PartRequests[k]
            IN  /\ part.part = k
                /\ part.range.start = SzTimes(k - 1, PlanBlocksize)
                /\ part.body.from = part.range.start
                /\ k > 1 => SzLess(PartRequests[k - 1].range.start, part.range.start)
                /\ SzAdd(SzSub(part.range.end, part.range.start), Bytes(1)) = part.body.len
                /\ part.headers["Content-Range"]
                     = "bytes " \o I64Text(part.range.start) \o "-"
                           \o I64Text(part.range.end) \o "/*"
\* three bytes in blocks of two: the second part is the byte at offset 2
C15_Witness ==
    /\ up # None /\ up.strategy = "part_upload" /\ up.reader.len = Bytes(3)
    /\ Len(PartRequests) = 2
    /\ PartRequests[1].headers["Content-Range"] = "bytes 0-1/*"
    /\ PartRequests[2].headers["Content-Range"] = "bytes 2-2/*"
    /\ PartRequests[2].body = ReaderBody(Bytes(2), Bytes(1))

\* the requests that carry a part, and those of them not answered yet
IsPartRequest(e) == IsPartPut(e) \/ (e.kind = "s3" /\ e.op = "part")
InFlight ==
    {i \in 1..Len(events) : IsPartRequest(events[i]) /\ ~AnswerCame(i)}

\* C16: in the block and S3 strategies the part requests in flight are never more
\* than parallel_uploads, and neither is the count of the wait group, which covers
\* them: a part is spooled and sent only when wait(parallel_uploads - 1) has passed.
C16_ConcurrencyBound ==
    (up # None /\ up.strategy \in {"part_upload", "aws_upload"}) =>
        /\ Cardinality(InFlight) <= up.info.parallel_uploads
        /\ Cardinality(InFlight) <= up.count
        /\ up.count <= up.info.parallel_uploads
\* the second part of a block upload is in flight, parallel_uploads being 1
C16_Witness ==
    /\ up # None /\ up.strategy = "part_upload" /\ up.info.parallel_uploads = 1
    /\ up.part_no = 2 /\ Cardinality(InFlight) = 1 /\ up.count = 1
\* a part of an S3 upload is in flight
C16_WitnessAws ==
    /\ up # None /\ up.strategy = "aws_upload" /\ up.info.parallel_uploads = 1
    /\ up.part_no = 2 /\ Cardinality(InFlight) = 1 /\ up.count = 1

\* the parts submitted to S3 with the ETag of the answer to each, in the order sent
IsS3Part(e) == e.kind = "s3" /\ e.op = "part"
RECURSIVE ReturnedTags(_, _)
ReturnedTags(ev, i) ==
    IF i >= Len(ev) THEN <<>>
    ELSE IF IsS3Part(ev[i])
    THEN <<[part |-> ev[i].part, etag |-> ev[i + 1].resp.etag]>> \o ReturnedTags(ev, i + 1)
    ELSE ReturnedTags(ev, i + 1)
\* the document that lists the parts from the k-th on
RECURSIVE ListedParts(_, _)
ListedParts(tags, k) ==
    IF k > Len(tags) THEN ""
    ELSE "<Part><PartNumber>" \o ToString(tags[k].part) \o "</PartNumber><ETag>"
            \o Unwrap(tags[k].etag) \o "</ETag></Part>" \o ListedParts(tags, k + 1)

\* C17: the finalization request of an S3 upload is sent once; its body lists the K
\* parts submitted before it as parts 1..K in ascending order, each once, each with
\* the ETag of the answer to that part, and none of these is empty.
C17_ETagOrdering ==
    (up # None /\ S3Requests("finalize") # {}) =>
        LET tags == ReturnedTags(events, 1)
        IN  /\ Cardinality(S3Requests("finalize")) = 1
            /\ Len(tags) = Cardinality(S3Requests("part"))
            /\ \A k \in 1..Len(tags) :
                   /\ tags[k].part = k
                   /\ IsSome(tags[k].etag) /\ Unwrap(tags[k].etag) # ""
            /\ \A i \in S3Requests("finalize") :
                   /\ \A j \in S3Requests("part") : j < i
                   /\ events[i].body
                        = TextBody("<CompleteMultipartUpload>" \o ListedParts(tags, 1)
                                       \o "</CompleteMultipartUpload>")
\* the finalization of an upload of two parts, with two different ETags
C17_Witness ==
    /\ up # None /\ S3Requests("finalize") # {}
    /\ Cardinality(S3Requests("part")) = 2
    /\ Len(up.info.aws_tags) = 2 /\ up.info.aws_tags[1] # up.info.aws_tags[2]
\* the finalization of an upload of thirteen parts
C17_WitnessMany ==
    /\ up # None /\ S3Requests("finalize") # {}
    /\ Cardinality(S3Requests("part")) = 13

\* the requests of an upload: API calls, PUTs and S3 requests
IsRequest(e) == e.kind \in {"api", "put", "s3"}
Requests == {i \in 1..Len(events) : IsRequest(events[i])}
\* every request that carries a part, before position i, was answered 2xx
PartsAccepted(i) ==
    \A j \in 1..Len(events) :
        (IsPartRequest(events[j]) \/ (events[j].kind = "put" /\ events[j].part = 0)) =>
            j < i /\ Accepted(AnswerTo(j))

\* C18: Complete is called at most once, with POST, the Complete path of the plan and
\* an empty parameter object, when every part request has been answered 2xx and the
\* count of the wait group is 0, for S3 after the accepted finalization request; no
\* request follows it.  A successful upload has called it and returns the envelope of
\* its answer; a failed upload has not called it, unless the Complete call is what
\* failed.
C18_CompleteProtocol ==
    up # None =>
        /\ Cardinality(ApiCalls("complete")) <= 1
        /\ \A c \in ApiCalls("complete") :
               /\ events[c].req.method = "POST"
               /\ events[c].param = JObj(<<>>) /\ events[c].req.body = "{}"
               /\ events[c].path = JGet(PlanOf, "Complete").str
               /\ \A r \in Requests : r <= c
               /\ PartsAccepted(c)
               /\ InFlight = {} /\ up.count = 0
               /\ up.strategy = "aws_upload" =>
                      \E f \in S3Requests("finalize") : f < c /\ Accepted(AnswerTo(f))
        /\ UploadOk =>
               \E c \in ApiCalls("complete") :
                   /\ c + 1 = Len(events)
                   /\ Unwrap(upResult).v = Received(AnswerTo(c))
        /\ UploadErr =>
               \A c \in ApiCalls("complete") :
                   /\ c + 1 = Len(events)
                   /\ upResult = Some(Responded(UploadContext, AnswerTo(c)).r)
\* an S3 upload succeeded
C18_Witness ==
    /\ UploadOk /\ up.strategy = "aws_upload" /\ Cardinality(S3Requests("part")) = 2
\* a block upload succeeded
C18_WitnessBlock ==
    /\ UploadOk /\ up.strategy = "part_upload" /\ Len(PartRequests) = 2
\* the Complete call of a single PUT upload failed
C18_WitnessCompleteFailed ==
    /\ UploadErr /\ up.strategy = "put_upload" /\ ApiCalls("complete") # {}
\* a part of a block upload was refused after an accepted one
C18_WitnessPartRefused ==
    /\ UploadErr /\ up.strategy = "part_upload" /\ Len(PartRequests) = 2
    /\ ApiCalls("complete") = {}

\* the invocations of the progress callback: the first, and the later ones
ProgressEvents == EventsOf("progress")
FirstProgress == CHOOSE f \in ProgressEvents : \A g \in ProgressEvents : f <= g
LaterProgress == IF ProgressEvents = {} THEN {} ELSE ProgressEvents \ {FirstProgress}
\* the first invocation is progress(0) and precedes every PUT and S3 request
StartsWithZero ==
    /\ ~up.progress => ProgressEvents = {}
    /\ (up.progress /\ up.strategy # "") =>
           /\ ProgressEvents # {}
           /\ events[FirstProgress].delta = Bytes(0)
           /\ \A r \in EventsOf("put") \cup EventsOf("s3") : FirstProgress < r
\* the invocation at p follows the 2xx answer to a part or to the single PUT, and its
\* delta is the number of bytes of that request
FollowsAcceptedPart(p) ==
    /\ p > 2
    /\ events[p - 1].kind = "answer" /\ Accepted(events[p - 1].resp)
    /\ IsPartRequest(events[p - 2]) \/ events[p - 2].kind = "put"
    /\ events[p].delta = events[p - 2].body.len
BlockSucceeded == UploadOk /\ up.strategy = "part_upload" /\ up.progress

\* C19 as stated: every later delta is positive, and the deltas of any successful
\* block upload sum to the length of the reader.
C19_Original ==
    up # None =>
        /\ StartsWithZero
        /\ \A p \in LaterProgress :
               FollowsAcceptedPart(p) /\ SzLess(Bytes(0), events[p].delta)
        /\ BlockSucceeded => SzSum(Deltas) = up.reader.len

\* C19: with a progress callback, the first invocation is progress(0), before any PUT
\* or S3 request; every later one follows the 2xx answer to a part or to the single PUT
\* and carries the bytes of that request, which is 0 for the PUT of an empty reader and
\* for the empty first part of S3 and positive otherwise; the deltas of a successful
\* block upload sum to the length of the reader when Blocksize is at least 1.
C19_ProgressProtocol ==
    up # None =>
        /\ StartsWithZero
        /\ \A p \in LaterProgress :
               /\ FollowsAcceptedPart(p)
               /\ events[p].delta = Bytes(0) =>
                      /\ up.reader.len = Bytes(0)
                      /\ up.strategy \in {"put_upload", "aws_upload"}
        /\ (BlockSucceeded /\ SzLess(Bytes(0), PlanBlocksize)) =>
               SzSum(Deltas) = up.reader.len
\* the single PUT of an empty reader reported 0 twice
C19_Witness ==
    /\ UploadOk /\ up.strategy = "put_upload" /\ up.progress
    /\ up.reader.len = Bytes(0) /\ Deltas = <<Bytes(0), Bytes(0)>>
\* a block upload of three bytes in blocks of two reported 0, 2 and 1
C19_WitnessBlock ==
    /\ BlockSucceeded /\ up.reader.len = Bytes(3)
    /\ Deltas = <<Bytes(0), Bytes(2), Bytes(1)>>
\* a block upload with Blocksize 0 succeeded without sending a byte of the reader
C19_WitnessNoBlocks ==
    /\ BlockSucceeded /\ PlanBlocksize = Bytes(0) /\ up.reader.len = Bytes(3)
    /\ Deltas = <<Bytes(0)>>
\* an S3 upload of an empty reader reported 0 for its empty first part
C19_WitnessEmptyPart ==
    /\ up # None /\ up.strategy = "aws_upload" /\ up.progress
    /\ up.reader.len = Bytes(0) /\ Deltas = <<Bytes(0), Bytes(0)>>

(***************************************************************************)
(* Properties of the NumeralWaitGroup                                      *)
(***************************************************************************)
\* the step is the return of a call to thread t
NwgReturned(t) == Len(threads'[t].log) = Len(threads[t].log) + 1
NwgSleepers == {t \in NwgThreads : threads[t].pc = "waiting"}
\* what a step of thread t may do to the count and to the sleepers
NwgStepOf(t) ==
    LET e == Last(threads'[t].log)
        change == IF e.op = "done" THEN -1 ELSE e.arg
    IN  /\ (NwgReturned(t) /\ e.op \in {"add", "done"}) =>
               /\ nwg' = nwg + change
               /\ change > 0 => \A u \in NwgSleepers : threads'[u].pc = "waiting"
               /\ change < 0 => \A u \in NwgSleepers : threads'[u].pc = "woken"
        /\ (NwgReturned(t) /\ e.op = "wait") =>
               /\ nwg' = nwg
               /\ nwg <= e.arg
               /\ threads[t].pc = "ready" <=> ~e.slept
        /\ (threads[t].pc = "ready" /\ threads'[t].pc = "waiting") =>
               nwg > threads'[t].min
\* the count is the sum of what the calls that returned added
RECURSIVE NwgSum(_)
NwgSum(log) ==
    IF log = <<>> THEN 0
    ELSE (CASE log[1].op = "add" -> log[1].arg
            [] log[1].op = "done" -> -1
            [] log[1].op = "wait" -> 0) + NwgSum(Tail(log))

\* C20: add(n) changes the count by n and done() by -1; a call of wait(min) made
\* when the count is at most min returns in the same step, without sleeping; wait(min)
\* sleeps only when the count is above min and returns only when the count is at most
\* min; an add with positive n leaves every sleeping thread asleep, and an add with
\* negative n (and done) wakes every sleeping thread.
C20_WaitGroupSemantics ==
    /\ [](threads # <<>> => nwg = NwgSum(threads[1].log) + NwgSum(threads[2].log))
    /\ [][threads # <<>> => \A t \in NwgThreads : NwgStepOf(t)]_vars
\* add(5), done(), done(), wait(3): wait returned without sleeping
C20_Witness ==
    /\ threads # <<>>
    /\ threads[1].log = <<NwgReturn("add", 5, FALSE), NwgReturn("done", -1, FALSE),
                          NwgReturn("done", -1, FALSE), NwgReturn("wait", 3, FALSE)>>
    /\ nwg = 3
\* a thread slept in wait(3) until add(-2) of the other brought the count from 5 to 3
C20_WitnessSlept ==
    /\ threads # <<>>
    /\ threads[1].log = <<NwgReturn("wait", 3, TRUE)>>
    /\ threads[2].log = <<NwgReturn("add", 5, FALSE), NwgReturn("add", -2, FALSE)>>
    /\ nwg = 3

(***************************************************************************)
(* Properties of the library calls of SpecLib                              *)
(***************************************************************************)
\* the call made, and what it returned
LibCall == Unwrap(libIn)
LibReturned(op) == IsSome(libIn) /\ IsSome(libOut) /\ LibCall.op = op
LibResult == Unwrap(libOut)

UserNode == JObj(<< <<"0", JStr("zero")>>, <<"name", JStr("test")>> >>)
ListNode == JArr(<< JObj(<< <<"id", JNum(7)>> >>), JStr("x") >>)
\* <<data, path, node>>: the node the successive key and index steps of the path's
\* non-empty segments reach in data; the other paths of GetPaths reach none
GetTable ==
    { <<Tree, "", Tree>>, <<Tree, "/", Tree>>, <<Tree, "//", Tree>>,
      <<Tree, "user", UserNode>>,
      <<Tree, "user/name", JStr("test")>>,
      <<Tree, "/user//name/", JStr("test")>>,
      <<Tree, "user/0", JStr("zero")>>,
      <<Tree, "list", ListNode>>,
      <<Tree, "list/0", JObj(<< <<"id", JNum(7)>> >>)>>,
      <<Tree, "list/0/id", JNum(7)>>,
      <<Tree, "list/1", JStr("x")>>,
      <<Tree, "list/+1", JStr("x")>>,
      <<Tree, "list/01", JStr("x")>>,
      <<Tree, "n", JNum(1)>>,
      <<TopList, "", TopList>>, <<TopList, "/", TopList>>, <<TopList, "//", TopList>>,
      <<TopList, "0", JStr("a")>>,
      <<TopList, "1/0", JNum(5)>>,
      <<Scalar, "", Scalar>>, <<Scalar, "/", Scalar>>, <<Scalar, "//", Scalar>> }
Expected(response, path) ==
    IF response.data = None THEN None
    ELSE LET rows == {row \in GetTable : row[1] = Unwrap(response.data) /\ row[2] = path}
         IN  IF rows = {} THEN None ELSE Some((CHOOSE row \in rows : TRUE)[3])
ExpectedString(response, path) ==
    LET node == Expected(response, path)
    IN  IF node # None /\ "str" \in DOMAIN Unwrap(node) THEN Some(Unwrap(node).str)
        ELSE None

\* C21: get returns the node that the successive object-key or array-index steps
\* over the non-empty segments of the path reach (data itself for "" and "/"), and
\* absent when data is absent, a key is missing, an index is out of range, an array
\* segment is no non-negative integer or a step is applied to a scalar; get_string
\* returns that node only when it is a JSON string.
C21_PathLookup ==
    /\ LibReturned("get") => LibResult = Expected(LibCall.response, LibCall.path)
    /\ LibReturned("get_string") =>
           LibResult = ExpectedString(LibCall.response, LibCall.path)
    /\ LibReturned("get") /\ LibCall.path \in {"", "/"} => LibResult = LibCall.response.data

\* a path with empty segments reaches a string two keys down
C21_Witness ==
    /\ LibReturned("get_string")
    /\ LibCall.path = "/user//name/"
    /\ LibResult = Some("test")
\* an index step and then a key step
C21_WitnessIndex ==
    /\ LibReturned("get")
    /\ LibCall.path = "list/0/id"
    /\ LibResult = Some(JNum(7))
\* an index out of range
C21_WitnessOutOfRange ==
    /\ LibReturned("get")
    /\ LibCall.path = "list/2"
    /\ LibCall.response.data = Some(Tree)
    /\ LibResult = None
\* a node that is no string
C21_WitnessNoString ==
    /\ LibReturned("get_string")
    /\ LibCall.path = "n"
    /\ LibCall.response.data = Some(Tree)
    /\ LibResult = None

\* the optional fields present in the envelope json: its members of these names
\* whose value is not null
PresentFields(json) == {f \in OptionalFields : JHas(json, f) /\ JGet(json, f) # JNull}
KeysOf(members) == {members[i][1] : i \in 1..Len(members)}
MemberValue(members, key) ==
    members[CHOOSE i \in 1..Len(members) : members[i][1] = key][2]

\* C22: deserializing an envelope and serializing it again preserves result and
\* every present optional field, emits no field that was absent and never emits
\* request_id, whatever request_id holds; full_raw holds result and exactly the
\* present fields, and never request_id.
C22_EnvelopeRoundTrip ==
    /\ LibReturned("to_string") \/ LibReturned("full_raw") =>
           (LibResult.ok <=> LibCall.json \notin IllTypedEnvelopes)
    /\ LibReturned("to_string") /\ LibResult.ok =>
           /\ KeysOf(LibResult.v) = {"result"} \cup PresentFields(LibCall.json)
           /\ Len(LibResult.v) = Cardinality(KeysOf(LibResult.v))
           /\ \A key \in KeysOf(LibResult.v) :
                  MemberValue(LibResult.v, key) = JGet(LibCall.json, key)
           /\ "request_id" \notin KeysOf(LibResult.v)
    /\ LibReturned("full_raw") /\ LibResult.ok =>
           /\ DOMAIN LibResult.v = {"result"} \cup PresentFields(LibCall.json)
           /\ \A key \in DOMAIN LibResult.v : LibResult.v[key] = JGet(LibCall.json, key)
           /\ "request_id" \notin DOMAIN LibResult.v

\* an envelope with two fields set, the others null, a request_id member in its
\* text and a request_id attached after it was read
C22_Witness ==
    /\ LibReturned("to_string")
    /\ LibCall.request_id = Some("req-9")
    /\ JHas(LibCall.json, "request_id")
    /\ PresentFields(LibCall.json) = {"code", "data"}
    /\ JHas(LibCall.json, "token")
    /\ LibResult = Ok(<< <<"result", JStr("redirect")>>, <<"data", Tree>>,
                         <<"code", JNum(404)>> >>)
\* full_raw of an envelope with every field set
C22_WitnessFullRaw ==
    /\ LibReturned("full_raw")
    /\ LibCall.request_id = Some("req-9")
    /\ PresentFields(LibCall.json) = OptionalFields
    /\ LibResult.ok
    /\ Cardinality(DOMAIN LibResult.v) = 13
\* an envelope of result alone
C22_WitnessBare ==
    /\ LibReturned("to_string")
    /\ LibCall.json = JObj(<< <<"result", JStr("redirect")>> >>)
    /\ LibResult = Ok(<< <<"result", JStr("redirect")>> >>)

\* unix * 1_000_000 + us and unix * 1000 + us div 1000 in decimal, for the unix and
\* us of TimeInputs
TimeTable ==
    {
      [unix |-> JNum(0), us |-> 0, full |-> "0", unixms |-> "0"],
      [unix |-> JNum(0), us |-> 1, full |-> "1", unixms |-> "0"],
      [unix |-> JNum(0), us |-> 747497, full |-> "747497", unixms |-> "747"],
      [unix |-> JNum(0), us |-> 999999, full |-> "999999", unixms |-> "999"],
      [unix |-> JNum(1), us |-> 0, full |-> "1000000", unixms |-> "1000"],
      [unix |-> JNum(1), us |-> 1, full |-> "1000001", unixms |-> "1000"],
      [unix |-> JNum(1), us |-> 747497, full |-> "1747497", unixms |-> "1747"],
      [unix |-> JNum(1), us |-> 999999, full |-> "1999999", unixms |-> "1999"],
      [unix |-> JNum(-1), us |-> 0, full |-> "-1000000", unixms |-> "-1000"],
      [unix |-> JNum(-1), us |-> 1, full |-> "-999999", unixms |-> "-1000"],
      [unix |-> JNum(-1), us |-> 747497, full |-> "-252503", unixms |-> "-253"],
      [unix |-> JNum(-1), us |-> 999999, full |-> "-1", unixms |-> "-1"],
      [unix |-> JNum(1597242491), us |-> 0, full |-> "1597242491000000", unixms |-> "1597242491000"],
      [unix |-> JNum(1597242491), us |-> 1, full |-> "1597242491000001", unixms |-> "1597242491000"],
      [unix |-> JNum(1597242491), us |-> 747497, full |-> "1597242491747497", unixms |-> "1597242491747"],
      [unix |-> JNum(1597242491), us |-> 999999, full |-> "1597242491999999", unixms |-> "1597242491999"],
      [unix |-> JNum(-1597242491), us |-> 0, full |-> "-1597242491000000", unixms |-> "-1597242491000"],
      [unix |-> JNum(-1597242491), us |-> 1, full |-> "-1597242490999999", unixms |-> "-1597242491000"],
      [unix |-> JNum(-1597242491), us |-> 747497, full |-> "-1597242490252503", unixms |-> "-1597242490253"],
      [unix |-> JNum(-1597242491), us |-> 999999, full |-> "-1597242490000001", unixms |-> "-1597242490001"],
      [unix |-> JNum(2147483647), us |-> 0, full |-> "2147483647000000", unixms |-> "2147483647000"],
      [unix |-> JNum(2147483647), us |-> 1, full |-> "2147483647000001", unixms |-> "2147483647000"],
      [unix |-> JNum(2147483647), us |-> 747497, full |-> "2147483647747497", unixms |-> "2147483647747"],
      [unix |-> JNum(2147483647), us |-> 999999, full |-> "2147483647999999", unixms |-> "2147483647999"],
      [unix |-> FarFuture, us |-> 0, full |-> "9000000000000000000", unixms |-> "9000000000000000"],
      [unix |-> FarFuture, us |-> 1, full |-> "9000000000000000001", unixms |-> "9000000000000000"],
      [unix |-> FarFuture, us |-> 747497, full |-> "9000000000000747497", unixms |-> "9000000000000747"],
      [unix |-> FarFuture, us |-> 999999, full |-> "9000000000000999999", unixms |-> "9000000000000999"] }
TimeRow(json) ==
    CHOOSE row \in TimeTable :
        row.unix = JGet(json, "unix") /\ JNum(row.us) = JGet(json, "us")

\* C23 as the specification states it: for all (unix, us) with 0 <= us < 1_000_000,
\* an object with those fields, the others absent or arbitrary, is deserialized and
\* serialized again to an object whose unix and us are the originals, with tz "UTC",
\* full = unix * 1_000_000 + us and unixms = unix * 1000 + us div 1000.
C23_TimeRoundTrip ==
    LibReturned("time") =>
        /\ LibResult.ok
        /\ MemberValue(LibResult.v, "unix") = JGet(LibCall.json, "unix")
        /\ MemberValue(LibResult.v, "us") = JGet(LibCall.json, "us")
        /\ MemberValue(LibResult.v, "tz") = JStr("UTC")
        /\ MemberValue(LibResult.v, "full") = JStr(TimeRow(LibCall.json).full)
        /\ MemberValue(LibResult.v, "unixms") = JStr(TimeRow(LibCall.json).unixms)

\* the times of C23 that do round-trip: the seconds of a date chrono holds, in an
\* object whose tz, iso, full and unixms, where given, are strings
RoundTrips(json) ==
    /\ JGet(json, "unix") # FarFuture
    /\ JHas(json, "tz") => "str" \in DOMAIN JGet(json, "tz")
\* C23, for the times that chrono holds: the round trip of the claim holds for
\* them; a unix beyond the dates of chrono makes the deserialization panic.
C23_WithinChrono ==
    LibReturned("time") =>
        IF RoundTrips(LibCall.json)
        THEN /\ LibResult.ok
             /\ MemberValue(LibResult.v, "unix") = JGet(LibCall.json, "unix")
             /\ MemberValue(LibResult.v, "us") = JGet(LibCall.json, "us")
             /\ MemberValue(LibResult.v, "tz") = JStr("UTC")
             /\ MemberValue(LibResult.v, "full") = JStr(TimeRow(LibCall.json).full)
             /\ MemberValue(LibResult.v, "unixms") = JStr(TimeRow(LibCall.json).unixms)
        ELSE ~LibResult.ok
\* the deserialization of {"unix": 9000000000000, "us": 0} panics
C23_WitnessPanic ==
    /\ LibReturned("time")
    /\ LibCall.json = JObj(<< <<"unix", FarFuture>>, <<"us", JNum(0)>> >>)
    /\ LibResult = Panic("No such local time")
\* a time before the epoch, in an object that holds stale members
C23_WitnessNegative ==
    /\ LibReturned("time")
    /\ JGet(LibCall.json, "unix") = JNum(-1)
    /\ JGet(LibCall.json, "us") = JNum(747497)
    /\ JHas(LibCall.json, "full")
    /\ LibResult.ok
    /\ MemberValue(LibResult.v, "full") = JStr("-252503")
    /\ MemberValue(LibResult.v, "iso") = JStr("1969-12-31 23:59:59")

\* the error is an API error made from an envelope whose code is code
ApiErrorWith(error, code) ==
    /\ error.kind = "Api"
    /\ error.response.code = Some(code)

\* C24: is_permission_denied is true exactly for API errors whose code is 403 and
\* is_not_found exactly for API errors whose code is 404, both false for HTTP
\* errors of status 403 or 404 and for every other kind; status_code returns the
\* envelope code for API errors (absent when the envelope had none), the HTTP
\* status for HTTP errors and absent for every other kind.
C24_ErrorHelpers ==
    /\ LibReturned("is_permission_denied") =>
           /\ LibResult \in BOOLEAN
           /\ LibResult <=> ApiErrorWith(LibCall.error, 403)
           /\ LibCall.error.kind # "Api" => ~LibResult
    /\ LibReturned("is_not_found") =>
           /\ LibResult \in BOOLEAN
           /\ LibResult <=> ApiErrorWith(LibCall.error, 404)
           /\ LibCall.error.kind # "Api" => ~LibResult
    /\ LibReturned("status_code") =>
           LibResult = CASE LibCall.error.kind = "Api" -> LibCall.error.response.code
                         [] LibCall.error.kind = "Http" -> Some(LibCall.error.status)
                         [] OTHER -> None

\* an HTTP error of status 403 is no permission-denied error
C24_Witness ==
    /\ LibReturned("is_permission_denied")
    /\ LibCall.error = RestErrorHttp(403, "body")
    /\ LibResult = FALSE
\* an API error of code 403 is one
C24_WitnessDenied ==
    /\ LibReturned("is_permission_denied")
    /\ ApiErrorWith(LibCall.error, 403)
    /\ LibResult = TRUE
\* an API error of code 404 is a not-found error
C24_WitnessNotFound ==
    /\ LibReturned("is_not_found")
    /\ ApiErrorWith(LibCall.error, 404)
    /\ LibResult = TRUE
\* the status codes of an API error without a code, of an HTTP error and of an
\* error of another kind
C24_WitnessNoCode ==
    /\ LibReturned("status_code")
    /\ LibCall.error.kind = "Api"
    /\ LibCall.error.response.code = None
    /\ LibResult = None
C24_WitnessHttp ==
    /\ LibReturned("status_code")
    /\ LibCall.error = RestErrorHttp(404, "body")
    /\ LibResult = Some(404)
C24_WitnessOther ==
    /\ LibReturned("status_code")
    /\ LibCall.error = [kind |-> "Other", msg |-> "404"]
    /\ LibResult = None

(***************************************************************************)
(* Properties of upload(), continued                                       *)
(***************************************************************************)
\* the params the negotiation call was sent with
SentParams == events[1].param
\* the requests whose body is read from the reader
HasReaderBody(e) == "body" \in DOMAIN e /\ "from" \in DOMAIN e.body
ReaderRequests == SelectSeq(events, HasReaderBody)

\* C25: when the length of the reader can be determined, upload adds size = length
\* to the params of the negotiation only if the caller has set no size (a size of
\* the caller is sent as it is, whatever its value), leaves every other param as it
\* is, and rewinds the reader to offset 0 before the strategy reads it; when the
\* length cannot be determined no size is added.
C25_SizeProbe ==
    (up # None /\ up.pc # "start" /\ events # <<>>) =>
        /\ events[1].kind = "api" /\ events[1].role = "negotiate"
        /\ \A key \in KeysOf(up.params.obj) :
               JHas(SentParams, key) /\ JGet(SentParams, key) = JGet(up.params, key)
        /\ KeysOf(SentParams.obj) \subseteq KeysOf(up.params.obj) \cup {"size"}
        /\ Len(SentParams.obj) = Cardinality(KeysOf(SentParams.obj))
        /\ (up.reader.seekable /\ ~JHas(up.params, "size")) =>
               JGet(SentParams, "size") = JNum64(up.reader.len)
        /\ ~up.reader.seekable => SentParams = up.params
        /\ up.reader.seekable =>
               /\ up.file_size = Some(up.reader.len)
               /\ up.pc = "negotiate" => up.pos = Bytes(0)
               /\ ReaderRequests # <<>> => ReaderRequests[1].body.from = Bytes(0)

\* a reader left at its end is read from its start, and the size of the caller is sent
C25_Witness ==
    /\ up # None
    /\ up.reader = [len |-> Bytes(3), seekable |-> TRUE, broken |-> FALSE]
    /\ up.start = Bytes(3)
    /\ up.params = UploadParamsSized(JNum(7))
    /\ events # <<>>
    /\ SentParams = UploadParamsSized(JNum(7))
    /\ ReaderRequests # <<>>
    /\ ReaderRequests[1].body = ReaderBody(Bytes(0), Bytes(3))
\* the length is added when the caller has set no size
C25_WitnessAdded ==
    /\ up # None
    /\ up.reader = [len |-> Bytes(3), seekable |-> TRUE, broken |-> FALSE]
    /\ up.params = UploadParams
    /\ events # <<>>
    /\ SentParams = JObj(<< <<"filename", JStr("a.txt")>>, <<"size", JNum64(Bytes(3))>> >>)
\* no size is added for a reader that cannot seek
C25_WitnessUnknown ==
    /\ up # None
    /\ ~up.reader.seekable
    /\ up.params = UploadParams
    /\ events # <<>>
    /\ SentParams = UploadParams

\* a step of the upload that sends one more part request
DispatchesPart ==
    /\ NextUpload
    /\ Len(events') = Len(events) + 1
    /\ IsPartRequest(events'[Len(events')])
\* a part request is in flight, fewer than parallel_uploads are, and the reader
\* holds the bytes of another part
RoomForAnotherPart ==
    /\ up # None
    /\ up.strategy \in {"part_upload", "aws_upload"}
    /\ up.info.parallel_uploads >= 2
    /\ InFlight # {}
    /\ Cardinality(InFlight) < up.info.parallel_uploads
    /\ ~up.reader.broken
    /\ SzLess(up.pos, up.reader.len)

\* C26 as the specification states it: in the block and S3 strategies with
\* parallel_uploads = P >= 2 and a reader of two parts or more, the part uploads run
\* as concurrent workers: the producer can read and dispatch part N+1 while the PUT
\* of part N has not completed, so that up to P PUTs are in flight at a time.
C26_ParallelParts == RoomForAnotherPart => ENABLED DispatchesPart

\* C26, as the code behaves: upload_part and aws_upload_part run on the thread of
\* the producer, which sends part N+1 only once the PUT of part N has been answered;
\* no two part requests are ever in flight, whatever parallel_uploads is.
C26_OnePartAtATime ==
    /\ Cardinality(InFlight) <= 1
    /\ RoomForAnotherPart => up.pc \in {"part", "s3"}
\* the first part of a block upload is in flight with parallel_uploads = 3 and two
\* more bytes to read
C26_Witness ==
    /\ RoomForAnotherPart
    /\ up.strategy = "part_upload"
    /\ up.info.parallel_uploads = DefaultParallelUploads
    /\ up.part_no = 1
    /\ up.reader.len = Bytes(4)
\* the same in an S3 upload
C26_WitnessAws ==
    /\ RoomForAnotherPart
    /\ up.strategy = "aws_upload"
    /\ up.info.parallel_uploads = DefaultParallelUploads
    /\ up.part_no = 1

\* the lengths of the parts sent by the block strategy, in order
PartLens == [k \in 1..Len(PartRequests) |-> PartRequests[k].body.len]
\* every part request sent so far has been answered 2xx
AllPartsAccepted ==
    \A i \in 1..Len(events) :
        IsPartRequest(events[i]) => AnswerCame(i) /\ Accepted(AnswerTo(i))
BlockRuns ==
    /\ up # None
    /\ up.strategy = "part_upload"
    /\ SzLess(Bytes(0), PlanBlocksize)

\* C27: for a reader of length L and a blocksize B >= 1 the block strategy sends
\* ceil(L/B) parts: every part but the last has B bytes, a short part is the last,
\* no empty part is sent (none at all for L = 0, L/B full parts for a multiple of
\* B), and Complete is called in all these cases.
C27_BlockEof ==
    BlockRuns =>
        LET K == Len(PartRequests)
        IN  /\ \A k \in 1..K :
                   /\ SzLess(Bytes(0), PartLens[k])
                   /\ ~SzLess(PlanBlocksize, PartLens[k])
                   /\ k < K => PartLens[k] = PlanBlocksize
            /\ ApiCalls("complete") # {} =>
                   /\ SzSum(PartLens) = up.reader.len
                   /\ ~SzLess(SzTimes(K, PlanBlocksize), up.reader.len)
                   /\ K > 0 => SzLess(SzTimes(K - 1, PlanBlocksize), up.reader.len)
            /\ (UploadReturned /\ ~up.reader.broken /\ AllPartsAccepted) =>
                   ApiCalls("complete") # {}

\* three bytes in blocks of two: a full part, a short one, then Complete
C27_Witness ==
    /\ BlockRuns
    /\ PlanBlocksize = Bytes(2)
    /\ up.reader.len = Bytes(3)
    /\ PartLens = <<Bytes(2), Bytes(1)>>
    /\ ApiCalls("complete") # {}
\* four bytes in blocks of two: two full parts, then a read of no byte and Complete
C27_WitnessMultiple ==
    /\ BlockRuns
    /\ PlanBlocksize = Bytes(2)
    /\ up.reader.len = Bytes(4)
    /\ PartLens = <<Bytes(2), Bytes(2)>>
    /\ ApiCalls("complete") # {}
\* no byte: no part, and Complete
C27_WitnessEmpty ==
    /\ BlockRuns
    /\ up.reader.len = Bytes(0)
    /\ PartLens = <<>>
    /\ ApiCalls("complete") # {}
    /\ UploadOk

\* the part requests that were answered with a status that is not 2xx
RefusedParts ==
    {i \in 1..Len(events) :
        /\ IsPartRequest(events[i])
        /\ AnswerCame(i)
        /\ AnswerTo(i).delivered
        /\ AnswerTo(i).status \notin 200..299}

\* C28: in the block and S3 strategies, when the PUT of a part is answered with a
\* status that is not 2xx, upload returns an HTTP error of that status; no part of
\* a higher number is sent after it, no progress is reported for the part, the S3
\* finalization request is not sent and Complete is not called.
C28_PartFailure ==
    up # None =>
        \A i \in RefusedParts :
            /\ UploadErr
            /\ Unwrap(upResult).v.kind = "Http"
            /\ Unwrap(upResult).v.status = AnswerTo(i).status
            /\ Len(events) = i + 1
            /\ \A j \in 1..Len(events) : IsPartRequest(events[j]) => events[j].part <= events[i].part
            /\ S3Requests("finalize") = {}
            /\ ApiCalls("complete") = {}
            /\ up.progress =>
                   Cardinality(ProgressEvents)
                       = 1 + Cardinality({j \in 1..i - 1 : IsPartRequest(events[j])})

\* the second part of a block upload is refused with 500 after the first was accepted
C28_Witness ==
    /\ up # None /\ up.strategy = "part_upload"
    /\ \E i \in RefusedParts : events[i].part = 2 /\ AnswerTo(i).status = 500
    /\ upResult = Some(Err(RestErrorHttp(500,
                     TextBody("Part upload failed with status 500 Internal Server Error"))))
\* a part of an S3 upload is refused with 403
C28_WitnessAws ==
    /\ up # None /\ up.strategy = "aws_upload"
    /\ \E i \in RefusedParts : AnswerTo(i).status = 403
    /\ UploadErr /\ Unwrap(upResult).v.kind = "Http" /\ Unwrap(upResult).v.status = 403

\* the S3 requests sent, in order
IsS3(e) == e.kind = "s3"
S3Sent == SelectSeq(events, IsS3)
\* the UploadId the answer to the initialization request returned
ReturnedUploadId ==
    LET init == CHOOSE i \in S3Requests("init") : TRUE
    IN  JGet(AnswerTo(init).body, "UploadId").str
\* the authorization the answer resp to a signV4 call returns, if any
ReturnedAuthorization(resp) ==
    LET returned == Responded(UploadContext, resp).r
    IN  IF /\ returned.ok
           /\ returned.v.data # None
           /\ "obj" \in DOMAIN Unwrap(returned.v.data)
           /\ StringField(Unwrap(returned.v.data), "authorization")
        THEN Some(JGet(Unwrap(returned.v.data), "authorization").str)
        ELSE None
SignPath == "Cloud/Aws/Bucket/Upload/" \o JGet(PlanOf, "Cloud_Aws_Bucket_Upload__").str
                \o ":signV4"

\* C29: the S3 requests of an S3 upload are one initialization POST ?uploads=, then
\* the part PUTs ?partNumber=N&uploadId=<id> for N = 1, 2, ... with the UploadId the
\* initialization returned, then one finalization POST ?uploadId=<id>, then
\* Complete; a successful upload of K parts has sent these K+2 requests.  Each of
\* them comes right after its own POST Cloud/Aws/Bucket/Upload/<aws_id>:signV4
\* call, made with the authentication of the Context, whose returned authorization
\* is its Authorization header; when a signV4 call fails no S3 request follows.
C29_S3Protocol ==
    (up # None /\ up.strategy = "aws_upload") =>
        /\ \A i \in EventsOf("s3") :
               /\ i > 4
               /\ events[i - 2].kind = "api" /\ events[i - 2].role = "sign"
               /\ events[i - 2].path = SignPath
               /\ events[i - 2].req.method = "POST"
               /\ events[i - 2].req.headers["Authorization"] = "Bearer access-1"
               /\ events[i - 2].param
                    = JObj(<< <<"headers",
                                JStr(AuthString(up.info, events[i].headers["X-Amz-Date"],
                                                events[i].method, events[i].query))>> >>)
               /\ events[i - 1].kind = "answer"
               /\ "Authorization" \in DOMAIN events[i].headers
               /\ Some(events[i].headers["Authorization"])
                    = ReturnedAuthorization(events[i - 1].resp)
        /\ \A a \in ApiCalls("sign") :
               AnswerCame(a) =>
                   IF ReturnedAuthorization(AnswerTo(a)) = None
                   THEN UploadErr /\ Len(events) = a + 1
                   ELSE events[a + 2].kind = "s3"
        /\ \A k \in 1..Len(S3Sent) :
               CASE k = 1 ->
                        /\ S3Sent[k].op = "init"
                        /\ S3Sent[k].method = "POST" /\ S3Sent[k].query = "uploads="
                 [] S3Sent[k].op = "part" ->
                        /\ S3Sent[k].part = k - 1
                        /\ S3Sent[k].method = "PUT"
                        /\ S3Sent[k].query = "partNumber=" \o ToString(k - 1)
                                                \o "&uploadId=" \o ReturnedUploadId
                 [] OTHER ->
                        /\ S3Sent[k].op = "finalize"
                        /\ k = Len(S3Sent) /\ k >= 3
                        /\ S3Sent[k].method = "POST"
                        /\ S3Sent[k].query = "uploadId=" \o ReturnedUploadId
        /\ \A c \in ApiCalls("complete") :
               /\ S3Requests("finalize") # {}
               /\ \A i \in EventsOf("s3") : i < c
        /\ UploadOk =>
               /\ ApiCalls("complete") # {}
               /\ Len(S3Sent) = Cardinality(S3Requests("part")) + 2

\* a successful S3 upload of two parts: initialization, parts 1 and 2, finalization,
\* Complete
C29_Witness ==
    /\ up # None /\ up.strategy = "aws_upload"
    /\ UploadOk
    /\ [k \in 1..Len(S3Sent) |-> S3Sent[k].query]
         = <<"uploads=", "partNumber=1&uploadId=upl-1", "partNumber=2&uploadId=upl-1",
             "uploadId=upl-1">>
\* a signV4 call fails: no S3 request follows
C29_WitnessSignFailed ==
    /\ up # None /\ up.strategy = "aws_upload"
    /\ Len(S3Sent) = 2
    /\ \E a \in ApiCalls("sign") :
           a > 8 /\ AnswerCame(a) /\ ReturnedAuthorization(AnswerTo(a)) = None
    /\ UploadErr

\* the S3 requests that carry a part, in order, and the lengths of their bodies
S3Parts == SelectSeq(events, IsS3Part)
S3PartLens == [k \in 1..Len(S3Parts) |-> S3Parts[k].body.len]
AwsRuns == up # None /\ up.strategy = "aws_upload"
SizeKnown == up.reader.seekable
AboveAwsLimit == SizeKnown /\ SzLess(Size(5 * 1024 * 1024, 0), up.reader.len)
\* m is max(5, size div (10000 * 1024 * 1024)), said without a division
IsPolicyOf(m, size) ==
    /\ m >= 5
    /\ ~SzLess(size, Size(m * 10000, 0)) \/ (m = 5 /\ SzLess(size, Size(60000, 0)))
    /\ SzLess(size, Size((m + 1) * 10000, 0))

\* C30: in the S3 strategy a known size above 5 TiB fails with an error of kind
\* other before the initialization request or any signV4 call; any other known size
\* sets max_part_size to max(5, size div (10000 * 1024 * 1024)) MiB before any S3
\* request, an unknown size leaves max_part_size at its value (1024 by default),
\* and the parts are cut at max_part_size MiB.
C30_PartSizePolicy ==
    AwsRuns =>
        /\ AboveAwsLimit =>
               /\ UploadErr
               /\ Unwrap(upResult).v = RestErrorOther("File exceeds AWS S3 5TB limit")
               /\ ApiCalls("sign") = {} /\ EventsOf("s3") = {}
        /\ (SizeKnown /\ ~AboveAwsLimit) =>
               /\ IsPolicyOf(up.info.max_part_size, up.reader.len)
               /\ ~(UploadErr /\ ApiCalls("sign") = {})
        /\ ~SizeKnown => up.info.max_part_size = 1024
        /\ \A k \in 1..Len(S3PartLens) :
               /\ ~SzLess(Size(up.info.max_part_size, 0), S3PartLens[k])
               /\ k < Len(S3PartLens) => S3PartLens[k] = Size(up.info.max_part_size, 0)
\* 60000 MiB of known size: parts of 6 MiB
C30_Witness ==
    /\ AwsRuns /\ up.reader.len = Size(60000, 0)
    /\ up.info.max_part_size = 6
    /\ Len(S3Parts) >= 2 /\ S3PartLens[1] = Size(6, 0)
\* one byte less: the floor of 5 MiB
C30_WitnessFloor ==
    /\ AwsRuns /\ up.reader.len = Size(59999, MiB - 1)
    /\ up.info.max_part_size = 5
    /\ Len(S3Parts) >= 2 /\ S3PartLens[1] = Size(5, 0)
\* 5 TiB exactly is accepted, in parts of 524 MiB
C30_WitnessLimit ==
    /\ AwsRuns /\ up.reader.len = Size(5 * 1024 * 1024, 0)
    /\ up.info.max_part_size = 524
    /\ Len(S3Parts) >= 1
\* one byte more than 5 TiB: the error, and nothing sent
C30_WitnessTooLarge ==
    /\ AwsRuns /\ up.reader.len = Size(5 * 1024 * 1024, 1)
    /\ UploadErr /\ EventsOf("s3") = {}
\* a reader of unknown size: two parts cut at the default of 1024 MiB
C30_WitnessUnknown ==
    /\ AwsRuns /\ ~SizeKnown
    /\ up.info.max_part_size = 1024
    /\ S3PartLens = <<Size(1024, 0), Bytes(1)>>

\* the part size of the S3 strategy, in bytes, and the finalization requests sent
AwsPartBytes == Size(up.info.max_part_size, 0)
Finalizations == SelectSeq(events, LAMBDA e : e.kind = "s3" /\ e.op = "finalize")
\* the length of the reader is n part sizes, for an n >= 1 within the bound
WholeParts == {n \in 1..MaxParts : SzTimes(n, AwsPartBytes) = up.reader.len}
\* the ETag the answer to the k-th part returned
ETagOfPart(k) ==
    LET i == CHOOSE j \in S3Requests("part") : events[j].part = k
    IN  Unwrap(AnswerTo(i).etag)

\* C31: in the S3 strategy a reader of zero bytes has exactly one part sent, part 1
\* of length zero, and the finalization XML lists it; a reader whose length is a
\* positive multiple n of the part size has exactly n parts sent, all full, and no
\* empty part after them.
C31_EmptyPart ==
    (AwsRuns /\ ~up.reader.broken) =>
        /\ up.reader.len = Bytes(0) =>
               /\ Len(S3Parts) <= 1
               /\ \A k \in 1..Len(S3Parts) :
                      S3Parts[k].part = 1 /\ S3PartLens[k] = Bytes(0)
               /\ Len(Finalizations) > 0 =>
                      /\ Len(S3Parts) = 1
                      /\ Finalizations[1].body
                           = TextBody("<CompleteMultipartUpload><Part><PartNumber>1"
                                      \o "</PartNumber><ETag>" \o ETagOfPart(1)
                                      \o "</ETag></Part></CompleteMultipartUpload>")
        /\ \A n \in WholeParts :
               /\ Len(S3Parts) <= n
               /\ \A k \in 1..Len(S3Parts) : S3PartLens[k] = AwsPartBytes
               /\ Len(Finalizations) > 0 => Len(S3Parts) = n
\* the empty reader: one empty part, listed, and the upload completes
C31_Witness ==
    /\ AwsRuns /\ up.reader.len = Bytes(0)
    /\ Len(Finalizations) = 1 /\ S3PartLens = <<Bytes(0)>>
    /\ UploadOk
\* 65 MiB of known size: thirteen parts of 5 MiB, and the finalization follows them
C31_WitnessMultiple ==
    /\ AwsRuns /\ up.reader.len = Size(65, 0) /\ WholeParts = {13}
    /\ Len(Finalizations) = 1 /\ Len(S3Parts) = 13 /\ S3PartLens[13] = Size(5, 0)
\* 2048 MiB of unknown size: two parts of 1024 MiB
C31_WitnessUnknown ==
    /\ AwsRuns /\ ~SizeKnown /\ WholeParts = {2}
    /\ Len(Finalizations) = 1 /\ Len(S3Parts) = 2

\* the calls of set_tag made so far, and the one made last
TagsMade == {LibResult.made[k] : k \in 1..Len(LibResult.made)}
LastTagCall == LibResult.made[Len(LibResult.made)]
\* the vector that holds the tag of every call made at the index of its part, less
\* one, and the empty string in between
LongestPart(calls) == CHOOSE n \in {c.part_no : c \in calls} : \A c \in calls : c.part_no <= n
TagsOf(calls) ==
    [i \in 1..LongestPart(calls) |->
        IF \E c \in calls : c.part_no = i
        THEN (CHOOSE c \in calls : c.part_no = i).tag
        ELSE ""]

\* the S3 part requests answered 200 without an ETag header
UntaggedParts ==
    {i \in S3Requests("part") :
        AnswerCame(i) /\ AnswerTo(i).delivered /\ AnswerTo(i).status = 200
          /\ AnswerTo(i).etag = None}

\* C32: set_tag(N, tag) stores tag at index N-1, grows the vector with empty strings
\* when N-1 is beyond its end, never shrinks it and changes no other index; for
\* distinct part numbers the vector is the same whatever the order of the calls, which
\* the mutex serializes; a part whose response has no ETag header stores nothing and
\* fails with an error of kind other.
C32_ETagStore ==
    /\ LibReturned("set_tag") =>
           LET tags == LibResult.tags
               before == LibResult.before
               N == LastTagCall.part_no
           IN  /\ Len(tags) = IF N > Len(before) THEN N ELSE Len(before)
               /\ tags[N] = LastTagCall.tag
               /\ \A i \in 1..Len(tags) :
                      i # N => tags[i] = IF i <= Len(before) THEN before[i] ELSE ""
               /\ tags = TagsOf(TagsMade)
    /\ AwsRuns =>
           /\ \A i \in UntaggedParts :
                  /\ UploadErr
                  /\ Unwrap(upResult).v = RestErrorOther("Missing ETag in AWS response")
                  /\ Len(events) = i + 1
                  /\ Len(up.info.aws_tags) = events[i].part - 1
           /\ \A k \in 1..Len(up.info.aws_tags) :
                  \E i \in S3Requests("part") :
                      /\ events[i].part = k /\ AnswerCame(i)
                      /\ AnswerTo(i).etag = Some(up.info.aws_tags[k])
\* the parts 1, 2 and 4 have stored their tags, part 4 first: index 2 is empty
C32_Witness ==
    /\ LibReturned("set_tag")
    /\ [k \in 1..Len(LibResult.made) |-> LibResult.made[k].part_no] = <<4, 1, 2>>
    /\ LibResult.tags = <<"etag-1", "etag-2", "", "etag-4">>
\* the same calls in the order of the parts
C32_WitnessInOrder ==
    /\ LibReturned("set_tag")
    /\ [k \in 1..Len(LibResult.made) |-> LibResult.made[k].part_no] = <<1, 2, 4>>
    /\ LibResult.tags = <<"etag-1", "etag-2", "", "etag-4">>
\* the response to part 2 has no ETag: the tag of part 1 stays alone, the error returns
C32_WitnessNoETag ==
    /\ AwsRuns /\ UploadErr
    /\ \E i \in UntaggedParts : events[i].part = 2
    /\ Len(up.info.aws_tags) = 1
    /\ Unwrap(upResult).v = RestErrorOther("Missing ETag in AWS response")
\* the responses to parts 1 and 2 have one each: both are stored
C32_WitnessStored ==
    /\ AwsRuns /\ ~SizeKnown
    /\ S3Requests("finalize") # {}
    /\ Len(up.info.aws_tags) = 2

(***************************************************************************)
(* Properties of do_request, continued                                     *)
(***************************************************************************)
\* the endpoint requests that have been answered, by their index
AnsweredEndpointRequests == {i \in EndpointRequests : i <= Len(answers)}
\* the refresh request follows the request at index i
RefreshFollows(i) == Len(wire) > i /\ wire[i + 1].role = "refresh"
\* the call returned r at the answer to the request at index i
ReturnedAt(i, r) == Returned /\ Len(answers) = i /\ Len(wire) = i /\ result = Some(r)
\* renew_token was entered at the answer to the request at index i: its request
\* follows, or it has returned one of its own errors at once
RenewalAt(i) ==
    \/ RefreshFollows(i)
    \/ ReturnedAt(i, Err([kind |-> "NoClientId"]))
    \/ ReturnedAt(i, Err([kind |-> "NoRefreshToken"]))
\* the envelope of the answer to the request at index i, as do_request holds it
HeldEnvelope(i) == [EnvelopeOf(answers[i]) EXCEPT !.request_id = answers[i].request_id]
\* what the dispatch on result gives for an envelope
IsDispatchOf(r, env) ==
    CASE env.result = "redirect" /\ env.exception = Some("Exception\\Login") ->
            r = Err([kind |-> "LoginRequired"])
      [] env.result \in {"redirect", "error"} ->
            ~r.ok /\ r.v.kind = "Api" /\ r.v.response = env
      [] OTHER -> r = Ok(env)

\* C33: a token renewal starts at a decoded envelope if and only if the Context of
\* the request has a Token and the envelope has both token = "invalid_request_token"
\* and extra = "token_expired"; it starts before the dispatch on result, so such an
\* envelope with result "error" or "redirect" gives no API or login-required error;
\* without a Token, or with one marker only, the envelope is dispatched on its
\* result and no refresh request is sent.
C33_ExpiryDetection ==
    \A i \in AnsweredEndpointRequests :
        Decodes(answers[i]) =>
            IF IsSome(wire[i].self.token) /\ ExpirySignal(EnvelopeOf(answers[i]))
            THEN /\ RenewalAt(i)
                 /\ Refreshable(wire[i].self) => RefreshFollows(i)
                 /\ Len(answers) = i =>
                        \/ result = None
                        \/ Unwrap(result).v.kind \notin {"Api", "LoginRequired"}
            ELSE /\ ~RefreshFollows(i)
                 /\ \E r \in {Unwrap(result)} :
                        ReturnedAt(i, r) /\ IsDispatchOf(r, HeldEnvelope(i))
\* the markers on a login redirect, to a Context with a Token: the refresh request
\* follows and the call has not returned
C33_Witness ==
    /\ Len(answers) = 1 /\ answers[1].body = EnvExpiredLogin
    /\ IsSome(ctx.token)
    /\ RefreshFollows(1) /\ result = None
\* the same envelope to a Context without a Token: login required
C33_WitnessNoToken ==
    /\ Len(answers) = 1 /\ answers[1].body = EnvExpiredLogin
    /\ ctx.token = None
    /\ ReturnedAt(1, Err([kind |-> "LoginRequired"]))
\* the token marker alone, to a Context with a Token: an API error
C33_WitnessTokenMarker ==
    /\ Len(answers) = 1 /\ answers[1].body = EnvInvalidToken
    /\ Refreshable(ctx)
    /\ Returned /\ Len(wire) = 1 /\ Unwrap(result).v.kind = "Api"
\* the extra marker alone
C33_WitnessExtraMarker ==
    /\ Len(answers) = 1 /\ answers[1].body = EnvExpiredNoToken
    /\ Refreshable(ctx)
    /\ Returned /\ Len(wire) = 1 /\ Unwrap(result).v.kind = "Api"
\* the markers on the answer to the replay: a second renewal starts
C33_WitnessReplay ==
    /\ Len(answers) = 3 /\ wire[3].role = "retry" /\ ExpiredAnswer(answers[3])
    /\ Len(wire) = 4 /\ RefreshFollows(3)

\* the refresh requests, by their index, and those that have been answered
RefreshRequests == {i \in 1..Len(wire) : wire[i].role = "refresh"}
\* the error do_request and apply::<Token> give for an answer that does not renew
IsRefreshErrorOf(r, resp) ==
    /\ ~r.ok
    /\ IF ~resp.delivered THEN r.v.kind = "Reqwest"
       ELSE IF ~Decodes(resp)
       THEN IF resp.status \in 400..599
            THEN r.v.kind = "Http" /\ r.v.status = resp.status
            ELSE r.v.kind = "Json"
       ELSE IF EnvelopeOf(resp).result \in {"error", "redirect"}
       THEN IsDispatchOf(r, [EnvelopeOf(resp) EXCEPT !.request_id = resp.request_id])
       ELSE r.v.kind = "Json"

\* C34: the refresh request is POST OAuth2:token with neither an Authorization header
\* nor signature parameters, and no refresh request follows it, whatever its answer;
\* when the refresh fails (API error, HTTP error, data that is no Token) the call
\* returns that error, the request is not replayed and the token stays as it was.
C34_RefreshIsolation ==
    \A i \in RefreshRequests :
        /\ wire[i].req.method = "POST"
        /\ wire[i].req.url = "https://www.atonline.com/_special/rest/OAuth2:token"
        /\ ~HasBearer(wire[i].req)
        /\ SignatureKeys \cap DOMAIN wire[i].req.query = {}
        /\ wire[i].signed = None
        /\ Len(wire) > i => wire[i + 1].role = "retry"
        /\ (i <= Len(answers) /\ ~RefreshAnswer(answers[i])) =>
               /\ Returned /\ Len(wire) = i /\ Len(answers) = i
               /\ IsRefreshErrorOf(Unwrap(result), answers[i])
               /\ refreshed = IF i = 2 THEN None ELSE wire[i - 1].self.token
\* the refresh is answered with an API error: the call returns it, nothing is replayed
C34_Witness ==
    /\ RefreshRequests = {2} /\ Len(answers) = 2
    /\ answers[2] = Http(403, None, EnvError)
    /\ Returned /\ Len(wire) = 2 /\ refreshed = None
    /\ Unwrap(result).v.kind = "Api" /\ Unwrap(result).v.code = Some(403)
\* the refresh is answered with the token-expired envelope: no nested refresh
C34_WitnessExpired ==
    /\ RefreshRequests = {2} /\ Len(answers) = 2
    /\ answers[2].body = EnvExpired
    /\ Returned /\ Len(wire) = 2 /\ Unwrap(result).v.kind = "Api"
\* the refresh is answered with an HTTP error
C34_WitnessHttp ==
    /\ RefreshRequests = {2} /\ Len(answers) = 2
    /\ answers[2] = Http(500, None, BodyText)
    /\ Returned /\ Unwrap(result).v.kind = "Http"
\* the refresh is answered with data that is no Token
C34_WitnessNoToken ==
    /\ RefreshRequests = {2} /\ Len(answers) = 2
    /\ answers[2].body = EnvSuccess
    /\ Returned /\ Len(wire) = 2 /\ Unwrap(result).v.kind = "Json"
\* the second refresh of a call fails: the token is the one the first refresh gave
C34_WitnessSecond ==
    /\ RefreshRequests = {2, 4} /\ Len(answers) = 4
    /\ Returned /\ ~Unwrap(result).ok
    /\ refreshed # None /\ Unwrap(refreshed).access_token = "access-2"

(***************************************************************************)
(* Properties of NumeralWaitGroup, continued                               *)
(***************************************************************************)
\* thread t is inside wait, asleep in cvar.wait or woken from it
InWait(t) == threads[t].pc \in {"waiting", "woken"}
\* the count is at or below the min thread t waits for
CountAllows(t) == nwg <= threads[t].min

\* C35: no wake-up is lost: a thread asleep in cvar.wait has seen a count above its
\* min and no decrement has happened since, and under fair scheduling no thread stays
\* inside wait(min) for ever while the count stays at or below min.
C35_NoLostWakeUp ==
    /\ [](\A t \in DOMAIN threads : threads[t].pc = "waiting" => ~CountAllows(t))
    /\ \A t \in NwgThreads : ~<>[](threads # <<>> /\ InWait(t) /\ CountAllows(t))
\* thread 1 slept in wait(3) at a count of 5 and has returned after add(-2)
C35_Witness ==
    /\ threads # <<>> /\ nwg = 3
    /\ threads[1].pc = "ready"
    /\ threads[1].log = <<NwgReturn("wait", 3, TRUE)>>
    /\ threads[2].log = <<NwgReturn("add", 5, FALSE), NwgReturn("add", -2, FALSE)>>
\* thread 2 slept in wait(3) at a count of 5, through a first done(), and has
\* returned after the second
C35_WitnessDone ==
    /\ threads # <<>> /\ nwg = 3
    /\ threads[2].log = <<NwgReturn("wait", 3, TRUE)>>
    /\ threads[1].log = <<NwgReturn("add", 5, FALSE), NwgReturn("done", -1, FALSE),
                          NwgReturn("done", -1, FALSE)>>

(***************************************************************************)
(* Properties of upload(), the wait group                                  *)
(***************************************************************************)
\* the count the first k calls on the wait group leave: adds less dones
Balance(k) ==
    Cardinality({j \in 1..k : up.calls[j].op = "add"})
        - Cardinality({j \in 1..k : up.calls[j].op = "done"})
PartsRun == up # None /\ up.strategy \in {"part_upload", "aws_upload"}
\* the finalization of the S3 strategy is on its way, or the Complete call is
Concluding ==
    \/ S3Requests("finalize") # {}
    \/ ApiCalls("complete") # {}
    \/ (up.pending # None /\ Unwrap(up.pending).op = "finalize")

\* C36: in the block and S3 strategies the count of the wait group is never
\* negative; every done() comes after the add(1) of its own part, no part calls
\* done() twice, and the count is 0 when the S3 finalization request or the Complete
\* call is sent.
C36_CounterBalance ==
    PartsRun =>
        /\ up.count = Balance(Len(up.calls))
        /\ \A k \in 0..Len(up.calls) : Balance(k) >= 0
        /\ \A k \in 1..Len(up.calls) :
               /\ up.calls[k].part \in 1..up.part_no
               /\ up.calls[k].op = "done" =>
                      \E j \in 1..k - 1 : up.calls[j] = NwgCallOf("add", up.calls[k].part)
               /\ \A j \in 1..k - 1 : up.calls[j] # up.calls[k]
        /\ Concluding => up.count = 0
\* a block upload of two parts at its Complete call
C36_Witness ==
    /\ PartsRun /\ up.strategy = "part_upload"
    /\ ApiCalls("complete") # {}
    /\ up.calls = <<NwgCallOf("add", 1), NwgCallOf("done", 1),
                    NwgCallOf("add", 2), NwgCallOf("done", 2)>>
    /\ up.count = 0
\* an S3 upload of two parts at its finalization request
C36_WitnessAws ==
    /\ PartsRun /\ up.strategy = "aws_upload"
    /\ S3Requests("finalize") # {}
    /\ Len(up.calls) = 4 /\ up.count = 0
\* a part of the block strategy is refused: done() is called, the count is 0
C36_WitnessRefused ==
    /\ PartsRun /\ up.strategy = "part_upload"
    /\ UploadErr /\ Unwrap(upResult).v.kind = "Http"
    /\ up.calls = <<NwgCallOf("add", 1), NwgCallOf("done", 1)>>
\* a part of the S3 strategy is refused: upload returns the error, done() is not
\* called and the count stays 1
C36_WitnessAwsRefused ==
    /\ PartsRun /\ up.strategy = "aws_upload"
    /\ UploadErr /\ Unwrap(upResult).v.kind = "Http"
    /\ up.calls = <<NwgCallOf("add", 1)>> /\ up.count = 1

\* the S3 strategy runs on a reader of a known size it accepts
AwsAccepted ==
    /\ AwsRuns /\ SizeKnown /\ ~AboveAwsLimit
    /\ SzLess(Size(64, 0), up.reader.len)

\* C37 as the specification states it: for every known size the S3 strategy accepts
\* (64 MiB < size <= 5 TiB) the part size of the policy makes the number of parts,
\* ceil(size / (max_part_size * 1 MiB)), at most 10000: the size is at most 10000
\* parts of max_part_size MiB.
C37_PartCountLimit ==
    AwsAccepted => ~SzLess(SzTimes(10000, AwsPartBytes), up.reader.len)

\* what the policy does keep: a size of at most 50000 MiB takes at most 10000 parts
\* of 5 MiB, and a larger one fewer than 10000 parts of max_part_size + 1 MiB
C37_PartCountOfPolicy ==
    AwsAccepted =>
        IF SzLess(Size(50000, 0), up.reader.len)
        THEN SzLess(up.reader.len, Size(10000 * (up.info.max_part_size + 1), 0))
        ELSE ~SzLess(SzTimes(10000, AwsPartBytes), up.reader.len)

\* C38 as the specification states it: do_request returns an envelope to the caller
\* only when its result is "success"; every decoded envelope with another result, a
\* value outside {"success", "error", "redirect"} included, yields an error.
C38_OnlySuccessReturned ==
    (Returned /\ IsSome(result) /\ Unwrap(result).ok) =>
        Unwrap(result).v.result = "success"

\* what the dispatch does keep: the envelope is returned unless its result is
\* "error" or "redirect"
C38_ErrorAndRedirectFail ==
    (Returned /\ IsSome(result) /\ Unwrap(result).ok) =>
        /\ Unwrap(result).v.result \notin {"error", "redirect"}
        /\ Unwrap(result).v = HeldEnvelope(Len(answers))

(***************************************************************************)
(* Properties of upload(), the block strategy                              *)
(***************************************************************************)
\* the Content-Range interval of the k-th part sent, and the offset after its end
RangeOf(k) == PartRequests[k].range
AfterRange(k) == SzAdd(RangeOf(k).end, Bytes(1))

\* C39: in a successful block upload of a reader of length L with a blocksize
\* B >= 1 the Content-Range intervals of the parts are disjoint and contiguous and
\* their union is [0, L-1]; part N carries the bytes of the reader from offset
\* (N-1)*B to the end of its interval, so no byte is sent twice or left out.
C39_BlockCoverage ==
    (BlockRuns /\ UploadOk) =>
        LET K == Len(PartRequests)
        IN  /\ (K = 0) = (up.reader.len = Bytes(0))
            /\ K > 0 => RangeOf(1).start = Bytes(0) /\ AfterRange(K) = up.reader.len
            /\ \A k \in 1..K :
                   /\ ~SzLess(RangeOf(k).end, RangeOf(k).start)
                   /\ k < K => AfterRange(k) = RangeOf(k + 1).start
                   /\ \A j \in 1..k - 1 : SzLess(RangeOf(j).end, RangeOf(k).start)
                   /\ RangeOf(k).start = SzTimes(PartRequests[k].part - 1, PlanBlocksize)
                   /\ PartRequests[k].body.from = RangeOf(k).start
                   /\ SzAdd(PartRequests[k].body.from, PartRequests[k].body.len)
                        = AfterRange(k)
\* four bytes in blocks of two: [0, 1] and [2, 3]
C39_Witness ==
    /\ BlockRuns /\ UploadOk /\ up.reader.len = Bytes(4)
    /\ [k \in 1..Len(PartRequests) |-> RangeOf(k)]
         = <<[start |-> Bytes(0), end |-> Bytes(1)], [start |-> Bytes(2), end |-> Bytes(3)]>>
\* three bytes of unknown size: [0, 1] and [2, 2]
C39_WitnessShort ==
    /\ BlockRuns /\ UploadOk /\ up.reader.len = Bytes(3) /\ ~up.reader.seekable
    /\ Len(PartRequests) = 2 /\ RangeOf(2) = [start |-> Bytes(2), end |-> Bytes(2)]
\* a reader left at its end by the caller: rewound, and sent from offset 0
C39_WitnessRewound ==
    /\ BlockRuns /\ UploadOk /\ up.reader.len = Bytes(3) /\ up.start = Bytes(3)
    /\ Len(PartRequests) = 2 /\ PartRequests[1].body = ReaderBody(Bytes(0), Bytes(2))
\* the empty reader: no part, and Complete
C39_WitnessEmpty ==
    /\ BlockRuns /\ UploadOk /\ up.reader.len = Bytes(0)
    /\ PartRequests = <<>>

(***************************************************************************)
(* Properties of upload(), termination                                     *)
(***************************************************************************)
\* the upload has numbered as many parts as the model follows
AtPartBound == up # None /\ up.part_no >= MaxParts
\* the producer is inside nwg.wait, where no other thread will wake it
InWaitForEver == up # None /\ up.pc = "blocked"

\* C40 as the specification states it: for any finite reader, any blocksize or part
\* size >= 1 and any parallel_uploads, 0 and 1 included, when every request gets a
\* response upload eventually returns a success or an error; the producer never
\* blocks for ever in a wait on the in-flight count.
C40_Termination == <>(UploadReturned \/ AtPartBound)

\* what the code does keep: with parallel_uploads >= 1 upload returns, and the
\* producer never waits
C40_TerminationFromOne ==
    /\ (up.parallel_uploads >= 1) => <>(UploadReturned \/ AtPartBound)
    /\ [](up.parallel_uploads >= 1 => ~InWaitForEver)

====
